---- MODULE Spec2Model ----
(***************************************************************************)
(* Multi-agent interview coach: the turn-state orchestration engine        *)
(* (InterviewEngine), the agents that wrap the model backend with JSON     *)
(* recovery and schema validation, and the session log.                    *)
(*                                                                         *)
(* A reply of the model backend (OllamaClient.chat) is a sequence of text  *)
(* tokens: whitespace, commentary words, the braces "{" and "}", the text  *)
(* between a pair of braces that makes them a JSON object, and a JSON      *)
(* document that is no object.  json.loads, str.strip, str.find and        *)
(* str.rfind act on these sequences.                                       *)
(***************************************************************************)
EXTENDS Integers, Sequences, FiniteSets, TLC

(***************************************************************************)
(* Bounds of the model.                                                    *)
(***************************************************************************)
MaxTurns == 2
MaxTurnsStreak == 6
MaxTurnsAvoid == 9
MaxTurnsGuard == 1
MaxTurnsUnparsable == 2
MaxRegen == 1
MaxTurnsScore == 2
MaxTurnsPlan == 2
MaxTurnsLog == 2
MaxTurnsPair == 2
MaxRegenRetry == 2
MaxTurnsRetry == 1
MaxTurnsTransport == 2

(***************************************************************************)
(* Program constants.                                                      *)
(***************************************************************************)
AvoidWindow == 8
GoodScore == 75
PoorScore == 45
StreakLen == 2
ScoreMin == 0
ScoreMax == 100
DefaultScore == 50
FallbackScore == 45

Difficulties == {"easy", "medium", "hard"}
Qualities == {"good", "partial", "poor", "unknown"}

DefaultPlan == <<"general_basics", "problem_solving", "tools_workflow">>

\* "Davai nachnem s bazy: chem list otlichaetsya ot tuple?"
FallbackQuestionText == "fallback: basics, list vs tuple"
\* "Podumai pro izmenyaemost (mutability). "
FallbackHint == "fallback hint: mutability"
FallbackIdeal == "fallback ideal: list mutable, tuple immutable"
\* "Rasskazhi, chem otlichayutsya list i tuple v Python?"
EmptyQuestionText == "default: list vs tuple in Python"

(***************************************************************************)
(* Text tokens.                                                            *)
(***************************************************************************)
WS == [t |-> "ws", v |-> ""]
LB == [t |-> "lb", v |-> ""]
RB == [t |-> "rb", v |-> ""]
ARR == [t |-> "arr", v |-> ""]
Txt(w) == [t |-> "txt", v |-> w]
Body(p) == [t |-> "body", v |-> p]
\* requests raised (connection, timeout, HTTP status): chat returns nothing
TransportError == <<[t |-> "raise", v |-> "RequestException"]>>

IsTransportError(raw) == Len(raw) = 1 /\ raw[1].t = "raise"

Min(a, b) == IF a < b THEN a ELSE b
Max(a, b) == IF a > b THEN a ELSE b

\* s[-n:] of Python
LastN(s, n) == SubSeq(s, Max(1, Len(s) - n + 1), Len(s))

RECURSIVE LStrip(_)
LStrip(s) == IF s # <<>> /\ Head(s).t = "ws" THEN LStrip(Tail(s)) ELSE s

RECURSIVE RStrip(_)
RStrip(s) ==
    IF s # <<>> /\ s[Len(s)].t = "ws" THEN RStrip(SubSeq(s, 1, Len(s) - 1)) ELSE s

\* str.strip()
Strip(s) == RStrip(LStrip(s))

\* str.find("{"): the first position, 0 when there is none (Python: -1)
Find(s, k) ==
    IF \E i \in 1..Len(s) : s[i].t = k
    THEN CHOOSE i \in 1..Len(s) : s[i].t = k /\ \A j \in 1..(i - 1) : s[j].t # k
    ELSE 0

\* str.rfind("}")
RFind(s, k) ==
    IF \E i \in 1..Len(s) : s[i].t = k
    THEN CHOOSE i \in 1..Len(s) : s[i].t = k /\ \A j \in (i + 1)..Len(s) : s[j].t # k
    ELSE 0

JsonError == [ok |-> FALSE, dict |-> FALSE, v |-> [has |-> {}]]

\* json.loads: an object, another JSON value, or JSONDecodeError
JsonLoads(s) ==
    LET c == Strip(s) IN
    IF Len(c) = 3 /\ c[1].t = "lb" /\ c[2].t = "body" /\ c[3].t = "rb"
    THEN [ok |-> TRUE, dict |-> TRUE, v |-> c[2].v]
    ELSE IF Len(c) = 2 /\ c[1].t = "lb" /\ c[2].t = "rb"
    THEN [ok |-> TRUE, dict |-> TRUE, v |-> [has |-> {}]]
    ELSE IF Len(c) = 1 /\ c[1].t = "arr"
    THEN [ok |-> TRUE, dict |-> FALSE, v |-> [has |-> {}]]
    ELSE JsonError

\* _safe_json_load: ok = FALSE stands for the JSONDecodeError it lets through
SafeJsonLoad(raw) ==
    LET s == Strip(raw)
        whole == JsonLoads(s)
        start == Find(s, "lb")
        end == RFind(s, "rb")
    IN  IF whole.ok THEN whole
        ELSE IF start # 0 /\ end # 0 /\ end > start
        THEN JsonLoads(SubSeq(s, start, end))
        ELSE JsonError

\* the words of a reply that end up in f"...{raw[:180]}"
RECURSIVE RawHead(_)
RawHead(raw) ==
    IF raw = <<>> THEN <<>>
    ELSE LET h == Head(raw) IN
         (IF h.t = "txt" THEN <<h.v>>
          ELSE IF h.t = "body" /\ "notes" \in h.v.has THEN h.v.notes
          ELSE <<>>) \o RawHead(Tail(raw))

Get(p, f, default) == IF f \in p.has THEN p[f] ELSE default

(***************************************************************************)
(* agents.py: the schemas (pydantic models) and the agents.                *)
(***************************************************************************)

\* ObserverOutput(**fields): a field that is absent takes its default
ObserverOutput(p) ==
    [answer_quality |-> Get(p, "answer_quality", "unknown"),
     score_0_100 |-> Get(p, "score_0_100", DefaultScore),
     next_difficulty |-> Get(p, "next_difficulty", "easy"),
     next_topic |-> Get(p, "next_topic", "general_basics"),
     intent |-> Get(p, "intent", <<"check_basics">>),
     should_move_on |-> Get(p, "should_move_on", TRUE),
     need_hint |-> Get(p, "need_hint", FALSE),
     notes |-> Get(p, "notes", <<>>)]

\* ObserverOutput.model_validate: FALSE stands for ValidationError
ObserverValid(data) ==
    /\ data.ok /\ data.dict
    /\ LET o == ObserverOutput(data.v) IN
       /\ o.answer_quality \in Qualities
       /\ o.score_0_100 >= ScoreMin /\ o.score_0_100 <= ScoreMax
       /\ o.next_difficulty \in Difficulties

InPlan(topic, topic_plan) == \E i \in 1..Len(topic_plan) : topic_plan[i] = topic

\* ObserverAgent.analyze, lines 192-196: the guard on the recommended topic
AnalyzeGuard(out, current_topic, topic_plan) ==
    IF out.should_move_on /\ ~InPlan(out.next_topic, topic_plan)
    THEN [out EXCEPT !.next_topic = current_topic, !.should_move_on = FALSE]
    ELSE out

\* a variant whose fallback takes the schema's default score
FallbackWithDefaultScore(raw, current_topic, current_difficulty) ==
    [answer_quality |-> "unknown",
     score_0_100 |-> DefaultScore,
     next_difficulty |-> current_difficulty,
     next_topic |-> current_topic,
     intent |-> <<"fallback">>,
     should_move_on |-> FALSE,
     need_hint |-> TRUE,
     notes |-> <<"Observer parse failed. Raw head:">> \o RawHead(raw)]

\* ObserverAgent.analyze, lines 197-208
FallbackObserverOutput(raw, current_topic, current_difficulty) ==
    [answer_quality |-> "unknown",
     score_0_100 |-> FallbackScore,
     next_difficulty |-> current_difficulty,
     next_topic |-> current_topic,
     intent |-> <<"fallback">>,
     should_move_on |-> FALSE,
     need_hint |-> TRUE,
     notes |-> <<"Observer parse failed. Raw head:">> \o RawHead(raw)]

\* ObserverAgent.analyze on the reply raw of the backend
Analyze(raw, current_topic, current_difficulty, topic_plan) ==
    LET data == SafeJsonLoad(raw) IN
    IF ObserverValid(data)
    THEN AnalyzeGuard(ObserverOutput(data.v), current_topic, topic_plan)
    ELSE FallbackObserverOutput(raw, current_topic, current_difficulty)

\* GeneratedQuestion.model_validate: question_text is required
QuestionValid(data) == data.ok /\ data.dict /\ "question_text" \in data.v.has

FallbackQuestion(need_hint) ==
    [question_text |-> FallbackQuestionText,
     hint |-> IF need_hint THEN FallbackHint ELSE "",
     ideal_answer_short |-> FallbackIdeal]

\* QuestionGeneratorAgent.generate on the reply raw of the backend
Generate(raw, need_hint) ==
    LET data == SafeJsonLoad(raw) IN
    IF QuestionValid(data)
    THEN [question_text |-> IF data.v.question_text = "" THEN EmptyQuestionText
                            ELSE data.v.question_text,
          hint |-> IF need_hint THEN Get(data.v, "hint", "") ELSE "",
          ideal_answer_short |-> Get(data.v, "ideal_answer_short", "")]
    ELSE FallbackQuestion(need_hint)

\* TopicPlan.model_validate: topics, when present, must be a list of strings
PlanValid(data) ==
    /\ data.ok /\ data.dict
    /\ "topics" \in data.v.has => data.v.topics_json_type = "list of str"

\* a variant that takes the topics without validating them
BuildPlanUnvalidated(raw) ==
    LET data == SafeJsonLoad(raw) IN
    IF data.ok /\ data.dict
    THEN LET topics == Get(data.v, "topics", <<>>) IN
         IF topics = <<>> THEN DefaultPlan ELSE topics
    ELSE DefaultPlan

\* TopicPlannerAgent.build_plan on the reply raw of the backend
BuildPlan(raw) ==
    LET data == SafeJsonLoad(raw) IN
    IF PlanValid(data)
    THEN LET topics == Get(data.v, "topics", <<>>) IN
         IF topics = <<>> THEN DefaultPlan ELSE topics
    ELSE DefaultPlan

Grades == {"Junior", "Middle", "Senior"}
Recommendations == {"Hire", "No Hire", "Strong Hire"}
Levels == {"low", "medium", "high"}
FeedbackFields ==
    {"grade", "hiring_recommendation", "confidence_score_0_100", "confirmed_skills",
     "knowledge_gaps", "corrections", "clarity", "honesty", "engagement", "roadmap"}

\* the FinalFeedback schema, as a predicate on a report
IsFinalFeedback(f) ==
    /\ DOMAIN f = FeedbackFields
    /\ f.grade \in Grades
    /\ f.hiring_recommendation \in Recommendations
    /\ f.confidence_score_0_100 \in ScoreMin..ScoreMax
    /\ f.clarity \in Levels /\ f.honesty \in Levels /\ f.engagement \in Levels

\* FinalFeedback.model_validate: every field is required
FeedbackValid(data) ==
    /\ data.ok /\ data.dict
    /\ FeedbackFields \subseteq data.v.has
    /\ data.v.grade \in Grades
    /\ data.v.hiring_recommendation \in Recommendations
    /\ data.v.confidence_score_0_100 >= ScoreMin
    /\ data.v.confidence_score_0_100 <= ScoreMax
    /\ data.v.clarity \in Levels /\ data.v.honesty \in Levels
    /\ data.v.engagement \in Levels

FallbackFeedback(raw) ==
    [grade |-> "Junior",
     hiring_recommendation |-> "No Hire",
     confidence_score_0_100 |-> FallbackScore,
     confirmed_skills |-> <<>>,
     knowledge_gaps |-> <<"final report could not be built (validation error)">>,
     corrections |-> <<RawHead(raw)>>,
     clarity |-> "medium",
     honesty |-> "medium",
     engagement |-> "low",
     roadmap |-> <<"repeat the basic topics and try again">>]

\* HiringManagerAgent.build_feedback: only ValidationError is caught, so the
\* JSONDecodeError of _safe_json_load reaches the caller
BuildFeedback(raw) ==
    LET data == SafeJsonLoad(raw) IN
    IF ~data.ok THEN [raised |-> "JSONDecodeError", feedback |-> <<>>]
    ELSE IF FeedbackValid(data)
    THEN [raised |-> "none",
          feedback |-> [f \in FeedbackFields |-> data.v[f]]]
    ELSE [raised |-> "none", feedback |-> FallbackFeedback(raw)]

(***************************************************************************)
(* interview_engine.py: the state of one InterviewEngine.                  *)
(***************************************************************************)
VARIABLES
    topic_plan,             \* self.topic_plan
    max_regen_attempts,     \* self.max_regen_attempts
    turn_id,                \* self.turn_id
    history,                \* self.history: <<[role, content]>>
    topic_index,            \* self.state["topic_index"], counted from 0
    streak_good,            \* self.state["streak_good"]
    streak_poor,            \* self.state["streak_poor"]
    last_topic,             \* self.state["last_topic"]
    last_intent,            \* self.state["last_intent"]
    current_topic,          \* self.current_topic
    difficulty,             \* self.difficulty
    asked_questions_text,   \* self.asked_questions_text
    asked_topics,           \* self.asked_topics
    turns,                  \* self.logger.turns
    final_feedback,         \* self.logger.final_feedback
    phase,                  \* IN_PROGRESS until finish() was called
    \* what the last operation did, kept for the properties
    last_op,                \* "init", "step" or "finish"
    raised,                 \* the exception the last operation let through
    pre,                    \* topic, cursor, difficulty, streaks before it
    observed,               \* step: the ObserverOutput, as validated and as used;
                            \* __init__: the planner's reply and its TopicPlan
    transition,             \* _update_difficulty_by_streaks: before and after
    gen_calls,              \* the qgen.generate calls of its generation phase
    guard_checks,           \* the _topic_guard_ok calls of its generation phase
    drafted_before,         \* the distinct questions drafted before that phase,
                            \* the most recently drafted last
    events,                 \* the statements the last __init__ or step executed,
                            \* in order, each with the engine as it left it
    finalized,              \* finish: the arguments of build_feedback, and
                            \* whether set_final_feedback was reached
    \* the object store, followed only where two sessions run side by side
    heap,                   \* address -> the dict, list or logger stored there
    engines,                \* session -> its InterviewEngine object
    actor                   \* the session the last operation was called on

engine_vars ==
    <<topic_plan, max_regen_attempts, turn_id, history, topic_index, streak_good,
      streak_poor, last_topic, last_intent, current_topic, difficulty,
      asked_questions_text, asked_topics, turns, final_feedback, phase>>

trace_vars ==
    <<last_op, raised, pre, observed, transition, gen_calls, guard_checks, drafted_before,
      events, finalized>>

pair_vars == <<heap, engines, actor>>

vars == <<engine_vars, trace_vars, pair_vars>>

None == "None"

\* prompts.build_interviewer_intro
Intro == <<Txt("intro")>>

\* a variant that tests the quality before the score
UpdateStreaksQualityFirst(plan, good, poor) ==
    IF plan.score_0_100 <= PoorScore \/ plan.answer_quality \in {"poor", "unknown"}
    THEN [streak_good |-> 0, streak_poor |-> poor + 1]
    ELSE IF plan.score_0_100 >= GoodScore
    THEN [streak_good |-> good + 1, streak_poor |-> 0]
    ELSE [streak_good |-> good, streak_poor |-> poor]

\* a variant that leaves the opposite counter alone
UpdateStreaksNoReset(plan, good, poor) ==
    IF plan.score_0_100 >= GoodScore
    THEN [streak_good |-> good + 1, streak_poor |-> poor]
    ELSE IF plan.score_0_100 <= PoorScore \/ plan.answer_quality \in {"poor", "unknown"}
    THEN [streak_good |-> good, streak_poor |-> poor + 1]
    ELSE [streak_good |-> good, streak_poor |-> poor]

\* step, lines 242-248: the streak counters after this evaluation
UpdateStreaks(plan, good, poor) ==
    IF plan.score_0_100 >= GoodScore
    THEN [streak_good |-> good + 1, streak_poor |-> 0]
    ELSE IF plan.score_0_100 <= PoorScore \/ plan.answer_quality \in {"poor", "unknown"}
    THEN [streak_good |-> 0, streak_poor |-> poor + 1]
    ELSE [streak_good |-> good, streak_poor |-> poor]

\* a variant that promotes without resetting streak_good
UpdateDifficultyKeepsStreak(d, good, poor) ==
    LET up == good >= StreakLen
        d1 == IF up /\ d = "easy" THEN "medium"
              ELSE IF up /\ d = "medium" THEN "hard"
              ELSE d
        down == poor >= StreakLen
        d2 == IF down /\ d1 = "hard" THEN "medium"
              ELSE IF down /\ d1 = "medium" THEN "easy"
              ELSE d1
    IN  [difficulty |-> d2,
         streak_good |-> good,
         streak_poor |-> IF down THEN 0 ELSE poor]

\* a variant that waits for a third answer in a row
UpdateDifficultyAfterThree(d, good, poor) ==
    LET up == good >= StreakLen + 1
        d1 == IF up /\ d = "easy" THEN "medium"
              ELSE IF up /\ d = "medium" THEN "hard"
              ELSE d
        down == poor >= StreakLen + 1
        d2 == IF down /\ d1 = "hard" THEN "medium"
              ELSE IF down /\ d1 = "medium" THEN "easy"
              ELSE d1
    IN  [difficulty |-> d2,
         streak_good |-> IF up THEN 0 ELSE good,
         streak_poor |-> IF down THEN 0 ELSE poor]

\* _update_difficulty_by_streaks: two ifs, one after the other
UpdateDifficultyByStreaks(d, good, poor) ==
    LET up == good >= StreakLen
        d1 == IF up /\ d = "easy" THEN "medium"
              ELSE IF up /\ d = "medium" THEN "hard"
              ELSE d
        down == poor >= StreakLen
        d2 == IF down /\ d1 = "hard" THEN "medium"
              ELSE IF down /\ d1 = "medium" THEN "easy"
              ELSE d1
    IN  [difficulty |-> d2,
         streak_good |-> IF up THEN 0 ELSE good,
         streak_poor |-> IF down THEN 0 ELSE poor]

\* list.index: the first position, counted from 0
PlanIndex(plan_topics, topic) ==
    (CHOOSE i \in 1..Len(plan_topics) :
        plan_topics[i] = topic /\ \A j \in 1..(i - 1) : plan_topics[j] # topic) - 1

\* a variant that wraps around after the last entry
AdvanceTopicWraps(index, plan_topics) ==
    LET i == (index + 1) % Len(plan_topics)
    IN  [topic_index |-> i, topic |-> plan_topics[i + 1]]

\* _advance_topic
AdvanceTopic(index, plan_topics) ==
    LET i == IF index < Len(plan_topics) - 1 THEN index + 1 ELSE index
    IN  [topic_index |-> i, topic |-> plan_topics[i + 1]]

\* a variant that adopts a recommended plan topic only at or after the cursor
DecideTopicForwardOnly(plan, topic, d, index, plan_topics) ==
    IF ~plan.should_move_on
    THEN [planned_topic |-> topic,
          topic_index |-> index,
          difficulty |-> IF plan.score_0_100 <= PoorScore THEN "easy" ELSE d,
          need_hint |-> IF plan.score_0_100 <= PoorScore THEN TRUE ELSE plan.need_hint]
    ELSE IF InPlan(plan.next_topic, plan_topics)
            /\ PlanIndex(plan_topics, plan.next_topic) >= index
    THEN [planned_topic |-> plan.next_topic,
          topic_index |-> PlanIndex(plan_topics, plan.next_topic),
          difficulty |-> d,
          need_hint |-> plan.need_hint]
    ELSE [planned_topic |-> topic, topic_index |-> index, difficulty |-> d,
          need_hint |-> plan.need_hint]

\* a variant that adopts a recommended plan topic even when told to stay
DecideTopicIgnoresStay(plan, topic, d, index, plan_topics) ==
    IF InPlan(plan.next_topic, plan_topics)
    THEN [planned_topic |-> plan.next_topic,
          topic_index |-> PlanIndex(plan_topics, plan.next_topic),
          difficulty |-> d,
          need_hint |-> plan.need_hint]
    ELSE LET adv == AdvanceTopic(index, plan_topics) IN
         [planned_topic |-> adv.topic,
          topic_index |-> PlanIndex(plan_topics, adv.topic),
          difficulty |-> d,
          need_hint |-> plan.need_hint]

\* step, lines 252-268: the topic, cursor, difficulty and hint flag of this turn
DecideTopic(plan, topic, d, index, plan_topics) ==
    IF ~plan.should_move_on
    THEN [planned_topic |-> topic,
          topic_index |-> index,
          difficulty |-> IF plan.score_0_100 <= PoorScore THEN "easy" ELSE d,
          need_hint |-> IF plan.score_0_100 <= PoorScore THEN TRUE ELSE plan.need_hint]
    ELSE IF InPlan(plan.next_topic, plan_topics)
    THEN [planned_topic |-> plan.next_topic,
          topic_index |-> PlanIndex(plan_topics, plan.next_topic),
          difficulty |-> d,
          need_hint |-> plan.need_hint]
    ELSE LET adv == AdvanceTopic(index, plan_topics) IN
         [planned_topic |-> adv.topic,
          topic_index |-> PlanIndex(plan_topics, adv.topic),
          difficulty |-> d,
          need_hint |-> plan.need_hint]

\* str.lower on a word of the notes
Lower(w) ==
    CASE w = "Mismatch" -> "mismatch"
      [] w = "MISMATCH" -> "mismatch"
      [] w = "Ne po teme" -> "ne po teme"
      [] w = "Ne sootvetstvuet" -> "ne sootvetstvuet"
      [] OTHER -> w

\* "mismatch", "ne sootvetstvuet", "ne po teme" (the last two in Russian)
MismatchMarkers == {"mismatch", "ne sootvetstvuet", "ne po teme"}

\* a variant that treats a failed verification call as a mismatch
TopicGuardFailClosed(raw, topic, d, plan_topics) ==
    IF IsTransportError(raw) THEN FALSE
    ELSE LET out == Analyze(raw, topic, d, plan_topics) IN
         ~(\E i \in 1..Len(out.notes) : Lower(out.notes[i]) \in MismatchMarkers)

\* _topic_guard_ok on the reply raw of the backend to the verification call
TopicGuardOk(raw, topic, d, plan_topics) ==
    IF IsTransportError(raw) THEN TRUE
    ELSE LET out == Analyze(raw, topic, d, plan_topics) IN
         ~(\E i \in 1..Len(out.notes) : Lower(out.notes[i]) \in MismatchMarkers)

\* what a verification call returned to _topic_guard_ok
GuardOut(raw, topic, d, plan_topics) ==
    IF IsTransportError(raw) THEN [raised |-> raw[1].v]
    ELSE Analyze(raw, topic, d, plan_topics)

RegenIntent(intent) == Append(intent, "_REGEN_TOPIC_MISMATCH")

GenCall(topic, d, intent, need_hint, avoid, gen) ==
    [topic |-> topic, difficulty |-> d, intent |-> intent, need_hint |-> need_hint,
     avoid_questions |-> avoid, result |-> gen]

\* a variant of the loop that returns the first draft
RECURSIVE RegenLoopKeepsFirstDraft(_, _, _, _, _)
RegenLoopKeepsFirstDraft(attempts, gen, calls, checks, c) ==
    IF ~(attempts < c.max_regen_attempts)
    THEN {[gen |-> calls[1].result, calls |-> calls, checks |-> checks]}
    ELSE UNION {
        LET ok == TopicGuardOk(graw, c.topic, c.difficulty, c.topic_plan)
            checks2 == Append(checks, [topic |-> c.topic,
                                       question_text |-> gen.question_text,
                                       out |-> GuardOut(graw, c.topic, c.difficulty,
                                                        c.topic_plan),
                                       ok |-> ok])
        IN  IF ok
            THEN {[gen |-> calls[1].result, calls |-> calls, checks |-> checks2]}
            ELSE UNION {
                LET gen2 == Generate(raw, c.need_hint)
                    call2 == GenCall(c.topic, c.difficulty, RegenIntent(c.intent),
                                     c.need_hint, Append(c.avoid, gen.question_text),
                                     gen2)
                IN  RegenLoopKeepsFirstDraft(attempts + 1, gen2, Append(calls, call2),
                                             checks2, c)
                : raw \in c.gens }
        : graw \in c.guards }

\* a variant of the loop that tests attempts <= max_regen_attempts
RECURSIVE RegenLoopOffByOne(_, _, _, _, _)
RegenLoopOffByOne(attempts, gen, calls, checks, c) ==
    IF ~(attempts <= c.max_regen_attempts)
    THEN {[gen |-> gen, calls |-> calls, checks |-> checks]}
    ELSE UNION {
        LET ok == TopicGuardOk(graw, c.topic, c.difficulty, c.topic_plan)
            checks2 == Append(checks, [topic |-> c.topic,
                                       question_text |-> gen.question_text,
                                       out |-> GuardOut(graw, c.topic, c.difficulty,
                                                        c.topic_plan),
                                       ok |-> ok])
        IN  IF ok
            THEN {[gen |-> gen, calls |-> calls, checks |-> checks2]}
            ELSE UNION {
                LET gen2 == Generate(raw, c.need_hint)
                    call2 == GenCall(c.topic, c.difficulty, RegenIntent(c.intent),
                                     c.need_hint, Append(c.avoid, gen.question_text),
                                     gen2)
                IN  RegenLoopOffByOne(attempts + 1, gen2, Append(calls, call2), checks2, c)
                : raw \in c.gens }
        : graw \in c.guards }

\* _generate_question, lines 200-213: the loop, from `attempts` on, for every
\* reply of the backend to the verification and regeneration calls
RECURSIVE RegenLoop(_, _, _, _, _)
RegenLoop(attempts, gen, calls, checks, c) ==
    IF ~(attempts < c.max_regen_attempts)
    THEN {[gen |-> gen, calls |-> calls, checks |-> checks]}
    ELSE UNION {
        LET ok == TopicGuardOk(graw, c.topic, c.difficulty, c.topic_plan)
            checks2 == Append(checks, [topic |-> c.topic,
                                       question_text |-> gen.question_text,
                                       out |-> GuardOut(graw, c.topic, c.difficulty,
                                                        c.topic_plan),
                                       ok |-> ok])
        IN  IF ok
            THEN {[gen |-> gen, calls |-> calls, checks |-> checks2]}
            ELSE UNION {
                LET gen2 == Generate(raw, c.need_hint)
                    call2 == GenCall(c.topic, c.difficulty, RegenIntent(c.intent),
                                     c.need_hint, Append(c.avoid, gen.question_text),
                                     gen2)
                IN  RegenLoop(attempts + 1, gen2, Append(calls, call2), checks2, c)
                : raw \in c.gens }
        : graw \in c.guards }

\* a variant that passes the last 5 asked questions, as step does to the observer
GenerateQuestionShortWindow(topic, d, intent, need_hint, asked, c) ==
    LET avoid == LastN(asked, 5)
        ctx == [topic |-> topic, difficulty |-> d, intent |-> intent,
                need_hint |-> need_hint, avoid |-> avoid,
                max_regen_attempts |-> c.max_regen_attempts,
                topic_plan |-> c.topic_plan, gens |-> c.gens, guards |-> c.guards]
    IN  UNION {
            LET gen == Generate(raw, need_hint) IN
            RegenLoop(0, gen,
                      <<GenCall(topic, d, intent, need_hint, avoid, gen)>>, <<>>, ctx)
            : raw \in c.gens }

\* _generate_question: every outcome [gen, calls, checks] the replies allow
GenerateQuestion(topic, d, intent, need_hint, asked, c) ==
    LET avoid == LastN(asked, AvoidWindow)
        ctx == [topic |-> topic, difficulty |-> d, intent |-> intent,
                need_hint |-> need_hint, avoid |-> avoid,
                max_regen_attempts |-> c.max_regen_attempts,
                topic_plan |-> c.topic_plan, gens |-> c.gens, guards |-> c.guards]
    IN  UNION {
            LET gen == Generate(raw, need_hint) IN
            RegenLoop(0, gen,
                      <<GenCall(topic, d, intent, need_hint, avoid, gen)>>, <<>>, ctx)
            : raw \in c.gens }

\* __init__, line 75: `plan.topics or [...]`
EnginePlan(topics) == IF topics = <<>> THEN DefaultPlan ELSE topics

UserEntry(text) == [role |-> "user", content |-> text]
AssistantEntry(text) == [role |-> "assistant", content |-> text]

\* a variant that logs the topic the observer recommended
TurnLogRecommendedTopic(id, topic, d, plan, gen, visible, user_message) ==
    [turn_id |-> id,
     topic |-> plan.next_topic,
     difficulty |-> d,
     score_0_100 |-> plan.score_0_100,
     ideal_answer_short |-> gen.ideal_answer_short,
     agent_visible_message |-> visible,
     user_message |-> user_message,
     internal_thoughts |->
        [planned_topic |-> topic, quality |-> plan.answer_quality,
         score |-> plan.score_0_100, should_move_on |-> plan.should_move_on,
         need_hint |-> plan.need_hint, difficulty_now |-> d, notes |-> plan.notes]]

\* logger.TurnLog, built by InterviewLogger.add_turn
TurnLog(id, topic, d, plan, gen, visible, user_message) ==
    [turn_id |-> id,
     topic |-> topic,
     difficulty |-> d,
     score_0_100 |-> plan.score_0_100,
     ideal_answer_short |-> gen.ideal_answer_short,
     agent_visible_message |-> visible,
     user_message |-> user_message,
     internal_thoughts |->
        [planned_topic |-> topic, quality |-> plan.answer_quality,
         score |-> plan.score_0_100, should_move_on |-> plan.should_move_on,
         need_hint |-> plan.need_hint, difficulty_now |-> d, notes |-> plan.notes]]

\* a variant that keeps one record, the latest
AddTurnOverwrites(log, record) ==
    IF log = <<>> THEN <<record>> ELSE [log EXCEPT ![Len(log)] = record]

\* InterviewLogger.add_turn
AddTurn(log, record) == Append(log, record)

\* the distinct questions drafted so far, the most recently drafted last,
\* once the drafts of `calls` are added to `recent`
RECURSIVE Drafted(_, _)
Drafted(recent, calls) ==
    IF calls = <<>> THEN recent
    ELSE LET q == Head(calls).result.question_text IN
         Drafted(Append(SelectSeq(recent, LAMBDA x : x # q), q), Tail(calls))

\* one executed statement: the collaborator's argument and, after it, the
\* committed topic, the difficulty and the lengths of history and log
Event(op, arg, topic, d, history_len, turns_len) ==
    [op |-> op, arg |-> arg, topic |-> topic, difficulty |-> d,
     history_len |-> history_len, turns_len |-> turns_len]

\* a variant whose guard appends its check prompt to history, as step does
\* with the user's message
GenerationEventsGuardPushes(calls, checks, topic, d, history_len, turns_len) ==
    [i \in 1..(Len(calls) + Len(checks)) |->
        IF i % 2 = 1
        THEN Event("generate", calls[(i + 1) \div 2].result.question_text,
                   topic, d, history_len + (i \div 2), turns_len)
        ELSE Event("topic_guard", checks[i \div 2].question_text,
                   topic, d, history_len + (i \div 2), turns_len)]

\* _generate_question: qgen.generate and _topic_guard_ok take turns, the
\* first call is a generation
GenerationEvents(calls, checks, topic, d, history_len, turns_len) ==
    [i \in 1..(Len(calls) + Len(checks)) |->
        IF i % 2 = 1
        THEN Event("generate", calls[(i + 1) \div 2].result.question_text,
                   topic, d, history_len, turns_len)
        ELSE Event("topic_guard", checks[i \div 2].question_text,
                   topic, d, history_len, turns_len)]

\* __init__, lines 85-97
InitEvents(topic, out) ==
    <<Event("push_assistant", "intro", topic, "easy", 1, 0)>>
    \o GenerationEvents(out.calls, out.checks, topic, "easy", 1, 0)
    \o <<Event("append_asked", out.gen.question_text, topic, "easy", 1, 0),
          Event("push_assistant", out.gen.question_text, topic, "easy", 2, 0)>>

\* a variant of step that commits the topic after the generation phase
StepEventsLateCommit(user_message, topic0, t, dec, out, h, n) ==
    <<Event("push_user", user_message, topic0, t.before, h + 1, n),
      Event("analyze", user_message, topic0, t.before, h + 1, n),
      Event("update_streaks", "", topic0, t.before, h + 1, n),
      Event("update_difficulty", "", topic0, t.after, h + 1, n),
      Event("decide_topic", "", topic0, dec.difficulty, h + 1, n)>>
    \o GenerationEvents(out.calls, out.checks, topic0, dec.difficulty, h + 1, n)
    \o <<Event("commit_topic", "", dec.planned_topic, dec.difficulty, h + 1, n),
          Event("append_asked", out.gen.question_text, dec.planned_topic, dec.difficulty,
                h + 1, n),
          Event("render_message", out.gen.question_text, dec.planned_topic,
                dec.difficulty, h + 1, n),
          Event("push_assistant", "", dec.planned_topic, dec.difficulty, h + 2, n),
          Event("add_turn", "", dec.planned_topic, dec.difficulty, h + 2, n + 1),
          Event("return", "", dec.planned_topic, dec.difficulty, h + 2, n + 1)>>

\* step, lines 222-315, statement by statement: topic0 is the topic before the
\* step, t the difficulty before and after line 250, h and n the lengths of
\* history and log before the step
StepEvents(user_message, topic0, t, dec, out, h, n) ==
    <<Event("push_user", user_message, topic0, t.before, h + 1, n),
      Event("analyze", user_message, topic0, t.before, h + 1, n),
      Event("update_streaks", "", topic0, t.before, h + 1, n),
      Event("update_difficulty", "", topic0, t.after, h + 1, n),
      Event("decide_topic", "", topic0, dec.difficulty, h + 1, n),
      Event("commit_topic", "", dec.planned_topic, dec.difficulty, h + 1, n)>>
    \o GenerationEvents(out.calls, out.checks, dec.planned_topic, dec.difficulty, h + 1, n)
    \o <<Event("append_asked", out.gen.question_text, dec.planned_topic, dec.difficulty,
                h + 1, n),
          Event("render_message", out.gen.question_text, dec.planned_topic,
                dec.difficulty, h + 1, n),
          Event("push_assistant", "", dec.planned_topic, dec.difficulty, h + 2, n),
          Event("add_turn", "", dec.planned_topic, dec.difficulty, h + 2, n + 1),
          Event("return", "", dec.planned_topic, dec.difficulty, h + 2, n + 1)>>

(***************************************************************************)
(* The operations.  `in` names the replies the backend may give to each    *)
(* kind of call, the caller's inputs and the number of turns explored.     *)
(***************************************************************************)

\* InterviewEngine.__init__: the state after construction
InitOn(in) ==
    \E praw \in in.plans, n \in in.regens :
        LET topics == EnginePlan(BuildPlan(praw))
            c == [max_regen_attempts |-> n, topic_plan |-> topics,
                  gens |-> in.gens, guards |-> in.guards]
        IN  \E out \in GenerateQuestion(topics[1], "easy", <<"warmup">>, FALSE, <<>>, c) :
                /\ topic_plan = topics
                /\ max_regen_attempts = n
                /\ turn_id = 0
                /\ history = <<AssistantEntry(Intro), AssistantEntry(out.gen.question_text)>>
                /\ topic_index = 0
                /\ streak_good = 0
                /\ streak_poor = 0
                /\ last_topic = None
                /\ last_intent = None
                /\ current_topic = topics[1]
                /\ difficulty = "easy"
                /\ asked_questions_text = <<out.gen.question_text>>
                /\ asked_topics = <<topics[1]>>
                /\ turns = <<>>
                /\ final_feedback = None
                /\ phase = "IN_PROGRESS"
                /\ last_op = "init"
                /\ raised = "none"
                /\ pre = None
                /\ observed = [planner_reply |-> praw, planner_topics |-> BuildPlan(praw)]
                /\ transition = None
                /\ gen_calls = out.calls
                /\ guard_checks = out.checks
                /\ drafted_before = <<>>
                /\ events = InitEvents(topics[1], out)
                /\ finalized = None

\* InterviewEngine.step
StepOn(in) ==
    /\ phase = "IN_PROGRESS"
    /\ turn_id < in.turns
    /\ \E user_message \in in.users, eraw \in in.evals, vraw \in in.renders :
        LET data == SafeJsonLoad(eraw)
            plan0 == Analyze(eraw, current_topic, difficulty, topic_plan)
            s == UpdateStreaks(plan0, streak_good, streak_poor)
            t == UpdateDifficultyByStreaks(difficulty, s.streak_good, s.streak_poor)
            dec == DecideTopic(plan0, current_topic, t.difficulty, topic_index, topic_plan)
            plan == [plan0 EXCEPT !.need_hint = dec.need_hint]
            c == [max_regen_attempts |-> max_regen_attempts, topic_plan |-> topic_plan,
                  gens |-> in.gens, guards |-> in.guards]
            visible == Strip(vraw)
        IN  \E out \in GenerateQuestion(dec.planned_topic, dec.difficulty, plan.intent,
                                        plan.need_hint, asked_questions_text, c) :
                /\ turn_id' = turn_id + 1
                /\ history' = history \o <<UserEntry(user_message), AssistantEntry(visible)>>
                /\ topic_index' = dec.topic_index
                /\ streak_good' = t.streak_good
                /\ streak_poor' = t.streak_poor
                /\ last_topic' = dec.planned_topic
                /\ last_intent' = plan.intent
                /\ current_topic' = dec.planned_topic
                /\ difficulty' = dec.difficulty
                /\ asked_questions_text' = Append(asked_questions_text, out.gen.question_text)
                /\ asked_topics' = Append(asked_topics, dec.planned_topic)
                /\ turns' = AddTurn(turns, TurnLog(turn_id + 1, dec.planned_topic,
                                                   dec.difficulty, plan, out.gen, visible,
                                                   user_message))
                /\ last_op' = "step"
                /\ raised' = "none"
                /\ pre' = [current_topic |-> current_topic, topic_index |-> topic_index,
                           difficulty |-> difficulty, streak_good |-> streak_good,
                           streak_poor |-> streak_poor]
                /\ observed' = [parsed |-> ObserverValid(data),
                                recommended |-> IF ObserverValid(data)
                                                THEN ObserverOutput(data.v) ELSE plan0,
                                plan |-> plan,
                                rendered |-> [question_text |-> out.gen.question_text,
                                              hint |-> out.gen.hint]]
                /\ transition' = [before |-> [difficulty |-> difficulty,
                                              streak_good |-> s.streak_good,
                                              streak_poor |-> s.streak_poor],
                                  after |-> t]
                /\ gen_calls' = out.calls
                /\ guard_checks' = out.checks
                /\ drafted_before' = Drafted(drafted_before, gen_calls)
                /\ events' = StepEvents(user_message, current_topic,
                                        [before |-> difficulty, after |-> t.difficulty],
                                        dec, out, Len(history), Len(turns))
                /\ UNCHANGED <<topic_plan, max_regen_attempts, final_feedback, phase,
                               finalized>>

\* the engine as an operation finds it
Snapshot ==
    [turn_id |-> turn_id, history |-> history, topic_index |-> topic_index,
     streak_good |-> streak_good, streak_poor |-> streak_poor,
     last_topic |-> last_topic, last_intent |-> last_intent,
     current_topic |-> current_topic, difficulty |-> difficulty,
     asked_questions_text |-> asked_questions_text, asked_topics |-> asked_topics,
     turns |-> turns]

\* InterviewEngine.step when OllamaClient.chat raises inside observer.analyze
\* (line 226), qgen.generate (line 271) or interviewer.render_message (line
\* 290): no statement of step catches the exception, the statements before
\* the failing call have run and those after it have not
StepFailsOn(in) ==
    /\ phase = "IN_PROGRESS"
    /\ turn_id < in.turns
    /\ \E user_message \in in.users, eraw \in in.evals, call \in in.failing :
        LET plan0 == Analyze(eraw, current_topic, difficulty, topic_plan)
            s == UpdateStreaks(plan0, streak_good, streak_poor)
            t == UpdateDifficultyByStreaks(difficulty, s.streak_good, s.streak_poor)
            dec == DecideTopic(plan0, current_topic, t.difficulty, topic_index, topic_plan)
            plan == [plan0 EXCEPT !.need_hint = dec.need_hint]
            c == [max_regen_attempts |-> max_regen_attempts, topic_plan |-> topic_plan,
                  gens |-> in.gens, guards |-> in.guards]
            analyzed == call \in {"generate", "render_message"}
        IN  \E out \in GenerateQuestion(dec.planned_topic, dec.difficulty, plan.intent,
                                        plan.need_hint, asked_questions_text, c) :
                /\ turn_id' = turn_id + 1
                /\ history' = Append(history, UserEntry(user_message))
                /\ topic_index' = IF analyzed THEN dec.topic_index ELSE topic_index
                /\ streak_good' = IF analyzed THEN t.streak_good ELSE streak_good
                /\ streak_poor' = IF analyzed THEN t.streak_poor ELSE streak_poor
                /\ current_topic' = IF analyzed THEN dec.planned_topic ELSE current_topic
                /\ difficulty' = IF analyzed THEN dec.difficulty ELSE difficulty
                /\ asked_questions_text' =
                        IF call = "render_message"
                        THEN Append(asked_questions_text, out.gen.question_text)
                        ELSE asked_questions_text
                /\ asked_topics' =
                        IF call = "render_message"
                        THEN Append(asked_topics, dec.planned_topic)
                        ELSE asked_topics
                /\ last_op' = "step"
                /\ raised' = "RequestException"
                /\ pre' = Snapshot
                /\ observed' = [failed |-> call]
                /\ transition' = None
                /\ gen_calls' = IF call = "render_message" THEN out.calls ELSE <<>>
                /\ guard_checks' = IF call = "render_message" THEN out.checks ELSE <<>>
                /\ drafted_before' = Drafted(drafted_before, gen_calls)
                /\ events' = <<Event("push_user", user_message, current_topic, difficulty,
                                     Len(history) + 1, Len(turns)),
                               Event("raise", call, current_topic', difficulty',
                                     Len(history) + 1, Len(turns))>>
                /\ UNCHANGED <<topic_plan, max_regen_attempts, last_topic, last_intent,
                               turns, final_feedback, phase, finalized>>

\* InterviewEngine.finish
FinishOn(in) ==
    /\ phase = "IN_PROGRESS"
    /\ \E fraw \in in.finals :
        LET r == BuildFeedback(fraw) IN
        /\ finalized' = [turns |-> turns, transcript |-> history,
                         stored |-> r.raised = "none"]
        /\ final_feedback' = IF r.raised = "none" THEN r.feedback ELSE final_feedback
        /\ raised' = r.raised
        /\ last_op' = "finish"
        /\ phase' = "FINISHED"
        /\ UNCHANGED <<topic_plan, max_regen_attempts, turn_id, history, topic_index,
                       streak_good, streak_poor, last_topic, last_intent, current_topic,
                       difficulty, asked_questions_text, asked_topics, turns>>
        /\ UNCHANGED <<pre, observed, transition, gen_calls, guard_checks, drafted_before,
                       events>>

(***************************************************************************)
(* Two sessions in one process.  Every `[]`, `{}` and InterviewLogger(...)  *)
(* of a constructor puts a new object in the store; an engine holds        *)
(* addresses, and its operations read and write the store through them.    *)
(***************************************************************************)

\* the address of a newly created object
Fresh(h) == Len(h) + 1

Store(h, a, v) == IF a > Len(h) THEN Append(h, v) ELSE [h EXCEPT ![a] = v]

\* a variant in which `self.history = []` reuses the list of the first engine
HistoryListShared(h) == IF Len(h) >= 2 THEN 2 ELSE Fresh(h)

\* __init__, line 60: `self.history = []`
HistoryList(h) == Fresh(h)

\* InterviewEngine.__init__ on the store h: the store and the engine object
\* after it, for every outcome of the warm-up generation
Construct(h, praw, n, in) ==
    LET topics == EnginePlan(BuildPlan(praw))
        c == [max_regen_attempts |-> n, topic_plan |-> topics,
              gens |-> in.gens, guards |-> in.guards]
        a_logger == Fresh(h)
        h1 == Store(h, a_logger, [turns |-> <<>>, final_feedback |-> None])
        a_history == HistoryList(h1)
        h2 == Store(h1, a_history, <<>>)
        a_state == Fresh(h2)
        h3 == Store(h2, a_state, [last_topic |-> None, last_intent |-> None,
                                  topic_index |-> 0, streak_good |-> 0,
                                  streak_poor |-> 0])
        a_plan == Fresh(h3)
        h4 == Store(h3, a_plan, topics)
        a_asked == Fresh(h4)
        h5 == Store(h4, a_asked, <<>>)
        a_topics == Fresh(h5)
        h6 == Store(h5, a_topics, <<>>)
    IN  { [heap |-> [h6 EXCEPT
                        ![a_history] = @ \o <<AssistantEntry(Intro),
                                              AssistantEntry(out.gen.question_text)>>,
                        ![a_asked] = Append(@, out.gen.question_text),
                        ![a_topics] = Append(@, topics[1])],
           engine |-> [max_regen_attempts |-> n, logger |-> a_logger, turn_id |-> 0,
                       history |-> a_history, state |-> a_state, topic_plan |-> a_plan,
                       current_topic |-> topics[1], difficulty |-> "easy",
                       asked_questions_text |-> a_asked, asked_topics |-> a_topics]]
          : out \in GenerateQuestion(topics[1], "easy", <<"warmup">>, FALSE, <<>>, c) }

\* InterviewEngine.step on the engine object e and the store h
StepThrough(h, e, user_message, eraw, vraw, in) ==
    LET st == h[e.state]
        plan_topics == h[e.topic_plan]
        plan0 == Analyze(eraw, e.current_topic, e.difficulty, plan_topics)
        s == UpdateStreaks(plan0, st.streak_good, st.streak_poor)
        t == UpdateDifficultyByStreaks(e.difficulty, s.streak_good, s.streak_poor)
        dec == DecideTopic(plan0, e.current_topic, t.difficulty, st.topic_index,
                           plan_topics)
        plan == [plan0 EXCEPT !.need_hint = dec.need_hint]
        c == [max_regen_attempts |-> e.max_regen_attempts, topic_plan |-> plan_topics,
              gens |-> in.gens, guards |-> in.guards]
        visible == Strip(vraw)
    IN  { [heap |-> [h EXCEPT
                        ![e.history] = @ \o <<UserEntry(user_message),
                                              AssistantEntry(visible)>>,
                        ![e.state] = [last_topic |-> dec.planned_topic,
                                      last_intent |-> plan.intent,
                                      topic_index |-> dec.topic_index,
                                      streak_good |-> t.streak_good,
                                      streak_poor |-> t.streak_poor],
                        ![e.asked_questions_text] = Append(@, out.gen.question_text),
                        ![e.asked_topics] = Append(@, dec.planned_topic),
                        ![e.logger] =
                            [@ EXCEPT !.turns =
                                AddTurn(@, TurnLog(e.turn_id + 1, dec.planned_topic,
                                                   dec.difficulty, plan, out.gen, visible,
                                                   user_message))]],
           engine |-> [e EXCEPT !.turn_id = @ + 1,
                                !.current_topic = dec.planned_topic,
                                !.difficulty = dec.difficulty]]
          : out \in GenerateQuestion(dec.planned_topic, dec.difficulty, plan.intent,
                                     plan.need_hint, h[e.asked_questions_text], c) }

\* the state of session k, read through its addresses
Session(k) ==
    LET e == engines[k] IN
    [topic_plan |-> heap[e.topic_plan],
     max_regen_attempts |-> e.max_regen_attempts,
     turn_id |-> e.turn_id,
     history |-> heap[e.history],
     topic_index |-> heap[e.state].topic_index,
     streak_good |-> heap[e.state].streak_good,
     streak_poor |-> heap[e.state].streak_poor,
     last_topic |-> heap[e.state].last_topic,
     last_intent |-> heap[e.state].last_intent,
     current_topic |-> e.current_topic,
     difficulty |-> e.difficulty,
     asked_questions_text |-> heap[e.asked_questions_text],
     asked_topics |-> heap[e.asked_topics],
     turns |-> heap[e.logger].turns]

\* the same fields of the session that is followed alone
Solo ==
    [topic_plan |-> topic_plan,
     max_regen_attempts |-> max_regen_attempts,
     turn_id |-> turn_id,
     history |-> history,
     topic_index |-> topic_index,
     streak_good |-> streak_good,
     streak_poor |-> streak_poor,
     last_topic |-> last_topic,
     last_intent |-> last_intent,
     current_topic |-> current_topic,
     difficulty |-> difficulty,
     asked_questions_text |-> asked_questions_text,
     asked_topics |-> asked_topics,
     turns |-> turns]

\* session 1 is constructed, in the store and alone
InitBoth(in) ==
    \E praw \in in.plans, n \in in.regens :
        /\ InitOn([in EXCEPT !.plans = {praw}, !.regens = {n}])
        /\ \E r \in Construct(<<>>, praw, n, in) :
            /\ heap = r.heap
            /\ engines = <<r.engine>>
            /\ actor = 1

\* session 1 takes a step, in the store and alone, on the same replies
StepBoth(in) ==
    \E user_message \in in.users, eraw \in in.evals, vraw \in in.renders :
        /\ StepOn([in EXCEPT !.users = {user_message}, !.evals = {eraw},
                             !.renders = {vraw}])
        /\ \E r \in StepThrough(heap, engines[1], user_message, eraw, vraw, in) :
            /\ heap' = r.heap
            /\ engines' = [engines EXCEPT ![1] = r.engine]
            /\ actor' = 1

\* a second session is constructed in the same process
OpenPeer(in) ==
    /\ Len(engines) = 1
    /\ \E praw \in in.peer_plans, n \in in.regens :
        \E r \in Construct(heap, praw, n, in) :
            /\ heap' = r.heap
            /\ engines' = Append(engines, r.engine)
            /\ actor' = 2
    /\ UNCHANGED <<engine_vars, trace_vars>>

\* the second session takes a step
StepPeer(in) ==
    /\ Len(engines) = 2
    /\ engines[2].turn_id < in.turns
    /\ \E user_message \in in.peer_users, eraw \in in.evals, vraw \in in.renders :
        \E r \in StepThrough(heap, engines[2], user_message, eraw, vraw, in) :
            /\ heap' = r.heap
            /\ engines' = [engines EXCEPT ![2] = r.engine]
            /\ actor' = 2
    /\ UNCHANGED <<engine_vars, trace_vars>>

\* one session, followed without the object store
Alone == heap = <<>> /\ engines = <<>> /\ actor = 0

(***************************************************************************)
(* Replies of the backend.                                                 *)
(***************************************************************************)
Obj(p) == <<LB, Body(p), RB>>
Wrapped(p) == <<WS, Txt("Here is the JSON:"), LB, Body(p), RB, Txt("Hope it helps"), WS>>

\* replies from which no JSON object can be extracted
Unparsable ==
    {<<>>,
     <<Txt("I cannot answer that")>>,
     <<LB, Txt("score: high"), RB>>,
     <<Txt("done"), RB, WS, LB>>,
     <<LB, Body([has |-> {}])>>}

EvalP(q, score, move_on, topic, need_hint, notes) ==
    [has |-> {"answer_quality", "score_0_100", "should_move_on", "next_topic",
              "need_hint", "notes"},
     answer_quality |-> q, score_0_100 |-> score, should_move_on |-> move_on,
     next_topic |-> topic, need_hint |-> need_hint, notes |-> notes]

QuestionP(q, hint, ideal) ==
    [has |-> {"question_text", "hint", "ideal_answer_short"},
     question_text |-> q, hint |-> hint, ideal_answer_short |-> ideal]

PlanP(topics) ==
    [has |-> {"topics"}, topics |-> topics, topics_json_type |-> "list of str"]

\* {"topics": "a, b, c"}: a value the schema rejects
PlanMistyped == [has |-> {"topics"}, topics |-> <<"a, b, c">>, topics_json_type |-> "str"]

FeedbackP(grade, confidence) ==
    [has |-> FeedbackFields,
     grade |-> grade, hiring_recommendation |-> "Hire",
     confidence_score_0_100 |-> confidence, confirmed_skills |-> <<"sql_joins">>,
     knowledge_gaps |-> <<>>, corrections |-> <<>>, clarity |-> "high",
     honesty |-> "high", engagement |-> "medium", roadmap |-> <<"practice">>]

GuardOkReply == Obj(EvalP("good", 80, FALSE, "a", FALSE, <<"ok">>))
GuardMismatchReply == Obj(EvalP("poor", 20, TRUE, "b", FALSE, <<"Topic", "MISMATCH">>))

\* {"ok": false, "reason": "..."}, the answer the check prompt asks for: none of
\* its fields is a field of ObserverOutput
GuardVerdictReply == Obj([has |-> {}])

Q1Reply == Obj(QuestionP("q1", "h1", "i1"))
Q2Reply == Obj(QuestionP("q2", "h2", "i2"))

PlanABC == Obj(PlanP(<<"a", "b", "c">>))

FinalReplies ==
    {Obj(FeedbackP("Middle", 70)),
     Wrapped(FeedbackP("Senior", 90)),
     Obj(FeedbackP("Principal", 70)),
     Obj(FeedbackP("Junior", 101)),
     Obj([has |-> {"grade"}, grade |-> "Junior"]),
     <<ARR>>,
     <<Txt("I cannot answer that")>>,
     <<LB, Txt("grade: Senior"), RB>>}

(***************************************************************************)
(* Spec: the topic policy and finish().  Evaluations vary in score, in the *)
(* stay/move-on flag and in the recommended topic (in the plan or not).    *)
(***************************************************************************)
TopicInputs ==
    [plans |-> {PlanABC, <<Txt("no plan")>>, Obj(PlanP(<<>>)), <<ARR>>},
     regens |-> {1},
     gens |-> {Q1Reply},
     guards |-> {GuardOkReply},
     users |-> {"u1"},
     evals |-> {Obj(EvalP("good", score, move_on, topic, FALSE, <<>>)) :
                    score \in {30, 80}, move_on \in BOOLEAN,
                    topic \in {"a", "b", "c", "zzz"}}
               \cup {Obj([has |-> {}]), <<Txt("I cannot answer that")>>},
     renders |-> {<<WS, Txt("v1"), WS>>},
     finals |-> FinalReplies,
     turns |-> MaxTurns]

Init == InitOn(TopicInputs) /\ Alone
Step == StepOn(TopicInputs) /\ UNCHANGED pair_vars
Finish == FinishOn(TopicInputs) /\ UNCHANGED pair_vars
Next == Step \/ Finish
Spec == Init /\ [][Next]_vars

(***************************************************************************)
(* SpecStreak: the difficulty state machine over many turns.  Evaluations  *)
(* vary in score (poor, neutral, good), in quality and in the stay/move-on *)
(* flag; the guard is switched off (max_regen_attempts = 0).               *)
(***************************************************************************)
StreakInputs ==
    [plans |-> {PlanABC},
     regens |-> {0},
     gens |-> {Q1Reply},
     guards |-> {GuardOkReply},
     users |-> {"u1"},
     evals |-> {Obj(EvalP("poor", 30, FALSE, "a", FALSE, <<>>)),
                Obj(EvalP("poor", 30, TRUE, "b", FALSE, <<>>)),
                Obj(EvalP("good", 60, TRUE, "b", FALSE, <<>>)),
                Obj(EvalP("poor", 60, TRUE, "b", FALSE, <<>>)),
                Obj(EvalP("good", 80, TRUE, "b", FALSE, <<>>))},
     renders |-> {<<Txt("v1")>>},
     finals |-> {Obj(FeedbackP("Middle", 70))},
     turns |-> MaxTurnsStreak]

InitStreak == InitOn(StreakInputs) /\ Alone
StepStreak == StepOn(StreakInputs) /\ UNCHANGED pair_vars
FinishStreak == FinishOn(StreakInputs) /\ UNCHANGED pair_vars
NextStreak == StepStreak \/ FinishStreak
SpecStreak == InitStreak /\ [][NextStreak]_vars

(***************************************************************************)
(* SpecGuard: the generation phase.  max_regen_attempts ranges over        *)
(* 0..MaxRegen, drafts over two questions and the fallback question, and   *)
(* the verification call may accept, report a mismatch in its notes, or    *)
(* fail in transport.                                                      *)
(***************************************************************************)
GuardInputs ==
    [plans |-> {PlanABC},
     regens |-> 0..MaxRegen,
     gens |-> {Q1Reply, Q2Reply, <<Txt("I cannot answer that")>>},
     guards |-> {GuardOkReply, GuardMismatchReply, TransportError},
     users |-> {"u1"},
     evals |-> {Obj(EvalP("good", 80, TRUE, "b", TRUE, <<>>)),
                Obj(EvalP("partial", 60, FALSE, "a", FALSE, <<>>))},
     renders |-> {<<WS, Txt("v1"), WS>>},
     finals |-> {Obj(FeedbackP("Middle", 70))},
     turns |-> MaxTurnsGuard]

InitGuard == InitOn(GuardInputs) /\ Alone
StepGuard == StepOn(GuardInputs) /\ UNCHANGED pair_vars
FinishGuard == FinishOn(GuardInputs) /\ UNCHANGED pair_vars
NextGuard == StepGuard \/ FinishGuard
SpecGuard == InitGuard /\ [][NextGuard]_vars

(***************************************************************************)
(* SpecUnparsable: a backend none of whose replies holds a JSON object.    *)
(***************************************************************************)
UnparsableInputs ==
    [plans |-> Unparsable,
     regens |-> 0..MaxRegen,
     gens |-> Unparsable,
     guards |-> Unparsable \cup {<<Txt("Mismatch")>>},
     users |-> {"u1", "u2"},
     evals |-> Unparsable,
     renders |-> {<<Txt("v1")>>},
     finals |-> Unparsable,
     turns |-> MaxTurnsUnparsable]

InitUnparsable == InitOn(UnparsableInputs) /\ Alone
StepUnparsable == StepOn(UnparsableInputs) /\ UNCHANGED pair_vars
FinishUnparsable == FinishOn(UnparsableInputs) /\ UNCHANGED pair_vars
NextUnparsable == StepUnparsable \/ FinishUnparsable
SpecUnparsable == InitUnparsable /\ [][NextUnparsable]_vars

(***************************************************************************)
(* SpecAvoid: enough turns to fill the window of asked questions.  Drafts  *)
(* are one of two questions and the guard accepts or reports a mismatch;   *)
(* the session is followed up to its last step, finish() is left out.      *)
(***************************************************************************)
AvoidInputs ==
    [plans |-> {PlanABC},
     regens |-> {1},
     gens |-> {Q1Reply, Q2Reply},
     guards |-> {GuardOkReply, GuardMismatchReply},
     users |-> {"u1"},
     evals |-> {Obj(EvalP("partial", 60, FALSE, "a", FALSE, <<>>))},
     renders |-> {<<Txt("v1")>>},
     finals |-> {Obj(FeedbackP("Middle", 70))},
     turns |-> MaxTurnsAvoid]

InitAvoid == InitOn(AvoidInputs) /\ Alone
StepAvoid == StepOn(AvoidInputs) /\ UNCHANGED pair_vars
NextAvoid == StepAvoid
SpecAvoid == InitAvoid /\ [][NextAvoid]_vars

(***************************************************************************)
(* SpecScore: the streak counters.  Evaluations take every quality with a  *)
(* score on either side of the two thresholds; the guard is switched off.  *)
(***************************************************************************)
ScoreInputs ==
    [plans |-> {PlanABC},
     regens |-> {0},
     gens |-> {Q1Reply},
     guards |-> {GuardOkReply},
     users |-> {"u1"},
     evals |-> {Obj(EvalP(q, score, TRUE, "b", FALSE, <<>>)) :
                    q \in Qualities,
                    score \in {PoorScore, PoorScore + 1, GoodScore - 1, GoodScore}},
     renders |-> {<<Txt("v1")>>},
     finals |-> {Obj(FeedbackP("Middle", 70))},
     turns |-> MaxTurnsScore]

InitScore == InitOn(ScoreInputs) /\ Alone
StepScore == StepOn(ScoreInputs) /\ UNCHANGED pair_vars
FinishScore == FinishOn(ScoreInputs) /\ UNCHANGED pair_vars
NextScore == StepScore \/ FinishScore
SpecScore == InitScore /\ [][NextScore]_vars

(***************************************************************************)
(* SpecPlan: the plan and the cursor.  The planner replies with plans of   *)
(* one to three topics, one of them with a repeated topic, or with a reply *)
(* that is empty, mistyped, no object or no JSON; evaluations stay or move *)
(* to a topic before, at or after the cursor, or outside the plan; the     *)
(* guard is switched off.                                                  *)
(***************************************************************************)
PlannedLists == {<<"a", "b", "c">>, <<"a", "b", "a">>, <<"b">>, <<"c", "a">>}

PlannerReplies ==
    {Obj(PlanP(t)) : t \in PlannedLists \ {<<"c", "a">>}}
    \cup {Wrapped(PlanP(<<"c", "a">>)), Obj(PlanP(<<>>)), Obj([has |-> {}]),
          Obj(PlanMistyped), <<ARR>>, <<Txt("no plan")>>, <<LB, Txt("topics: a, b"), RB>>}

PlanInputs ==
    [plans |-> PlannerReplies,
     regens |-> {0},
     gens |-> {Q1Reply},
     guards |-> {GuardOkReply},
     users |-> {"u1"},
     evals |-> {Obj(EvalP("partial", 60, FALSE, "b", FALSE, <<>>))}
               \cup {Obj(EvalP("partial", 60, TRUE, topic, FALSE, <<>>)) :
                        topic \in {"a", "b", "c", "zzz"}},
     renders |-> {<<Txt("v1")>>},
     finals |-> {Obj(FeedbackP("Middle", 70))},
     turns |-> MaxTurnsPlan]

InitPlan == InitOn(PlanInputs) /\ Alone
StepPlan == StepOn(PlanInputs) /\ UNCHANGED pair_vars
FinishPlan == FinishOn(PlanInputs) /\ UNCHANGED pair_vars
NextPlan == StepPlan \/ FinishPlan
SpecPlan == InitPlan /\ [][NextPlan]_vars

(***************************************************************************)
(* SpecWarmup: construction, for every planner reply above, with           *)
(* max_regen_attempts in 0..MaxRegen, drafts that are one of two questions *)
(* or the fallback, and a guard that accepts, rejects or fails; the        *)
(* session is finished before the first user message.                      *)
(***************************************************************************)
WarmupInputs ==
    [plans |-> PlannerReplies,
     regens |-> 0..MaxRegen,
     gens |-> {Q1Reply, Q2Reply, <<Txt("I cannot answer that")>>},
     guards |-> {GuardOkReply, GuardMismatchReply, TransportError},
     users |-> {},
     evals |-> {},
     renders |-> {},
     finals |-> {Obj(FeedbackP("Junior", 10))},
     turns |-> 0]

InitWarmup == InitOn(WarmupInputs) /\ Alone
FinishWarmup == FinishOn(WarmupInputs) /\ UNCHANGED pair_vars
NextWarmup == FinishWarmup
SpecWarmup == InitWarmup /\ [][NextWarmup]_vars

(***************************************************************************)
(* SpecFailOpen: the answers of the verification call.  With               *)
(* max_regen_attempts = 1 the guard is asked once per phase and answers    *)
(* with notes that name a mismatch or not, with the verdict object its     *)
(* prompt asks for, with text that holds no JSON (with and without the     *)
(* word mismatch), or the call fails in transport.                         *)
(***************************************************************************)
FailOpenInputs ==
    [plans |-> {PlanABC},
     regens |-> {1},
     gens |-> {Q1Reply, Q2Reply},
     guards |-> {GuardOkReply, GuardMismatchReply, TransportError, GuardVerdictReply,
                 <<Txt("I cannot answer that")>>, <<Txt("Mismatch")>>},
     users |-> {"u1"},
     evals |-> {Obj(EvalP("good", 80, TRUE, "b", TRUE, <<>>))},
     renders |-> {<<Txt("v1")>>},
     finals |-> {Obj(FeedbackP("Middle", 70))},
     turns |-> MaxTurnsGuard]

InitFailOpen == InitOn(FailOpenInputs) /\ Alone
StepFailOpen == StepOn(FailOpenInputs) /\ UNCHANGED pair_vars
FinishFailOpen == FinishOn(FailOpenInputs) /\ UNCHANGED pair_vars
NextFailOpen == StepFailOpen \/ FinishFailOpen
SpecFailOpen == InitFailOpen /\ [][NextFailOpen]_vars

(***************************************************************************)
(* SpecLog: history and the log.  User messages, evaluations and rendered  *)
(* messages (one padded with whitespace) each take two values, and the     *)
(* finalization call returns a report or text that holds no JSON.          *)
(***************************************************************************)
LogInputs ==
    [plans |-> {PlanABC},
     regens |-> {0},
     gens |-> {Q1Reply},
     guards |-> {GuardOkReply},
     users |-> {"u1", "u2"},
     evals |-> {Obj(EvalP("good", 80, TRUE, "b", FALSE, <<>>)),
                <<Txt("I cannot answer that")>>},
     renders |-> {<<Txt("v1")>>, <<WS, Txt("v2"), WS>>},
     finals |-> {Obj(FeedbackP("Middle", 70)), <<Txt("I cannot answer that")>>},
     turns |-> MaxTurnsLog]

InitLog == InitOn(LogInputs) /\ Alone
StepLog == StepOn(LogInputs) /\ UNCHANGED pair_vars
FinishLog == FinishOn(LogInputs) /\ UNCHANGED pair_vars
NextLog == StepLog \/ FinishLog
SpecLog == InitLog /\ [][NextLog]_vars

(***************************************************************************)
(* SpecPair: two sessions whose operations interleave in every order.      *)
(* Session 1 is also followed alone, on the same replies.  The guard is    *)
(* switched off and every phase has one draft.                             *)
(***************************************************************************)
PairInputs ==
    [plans |-> {PlanABC},
     peer_plans |-> {Obj(PlanP(<<"b", "c">>)), <<Txt("no plan")>>},
     regens |-> {0},
     gens |-> {Q1Reply},
     guards |-> {GuardOkReply},
     users |-> {"u1"},
     peer_users |-> {"u2"},
     evals |-> {Obj(EvalP("good", 80, TRUE, "b", FALSE, <<>>)),
                Obj(EvalP("poor", 30, FALSE, "a", FALSE, <<>>))},
     renders |-> {<<Txt("v1")>>},
     finals |-> {},
     turns |-> MaxTurnsPair]

NextPair == StepBoth(PairInputs) \/ OpenPeer(PairInputs) \/ StepPeer(PairInputs)
SpecPair == InitBoth(PairInputs) /\ [][NextPair]_vars

(***************************************************************************)
(* SpecRetry: a session constructed with max_regen_attempts =              *)
(* MaxRegenRetry, so that a phase can reject more than one draft.  The     *)
(* evaluation either moves on to b or stays while recommending c.          *)
(***************************************************************************)
RetryInputs ==
    [plans |-> {PlanABC},
     regens |-> {MaxRegenRetry},
     gens |-> {Q1Reply, Q2Reply},
     guards |-> {GuardOkReply, GuardMismatchReply},
     users |-> {"u1"},
     evals |-> {Obj(EvalP("good", 80, TRUE, "b", TRUE, <<>>)),
                Obj(EvalP("partial", 60, FALSE, "c", FALSE, <<>>))},
     renders |-> {<<WS, Txt("v1"), WS>>},
     finals |-> {Obj(FeedbackP("Middle", 70))},
     turns |-> MaxTurnsRetry]

InitRetry == InitOn(RetryInputs) /\ Alone
NextRetry ==
    \/ StepOn(RetryInputs) /\ UNCHANGED pair_vars
    \/ FinishOn(RetryInputs) /\ UNCHANGED pair_vars
SpecRetry == InitRetry /\ [][NextRetry]_vars

(***************************************************************************)
(* SpecTransport: a backend that may be unreachable when step calls it.    *)
(* Any of the three collaborator calls of a step can fail in transport;    *)
(* the caller may call step again afterwards, or finish.                   *)
(***************************************************************************)
TransportInputs ==
    [plans |-> {PlanABC},
     regens |-> {1},
     gens |-> {Q1Reply, Q2Reply},
     guards |-> {GuardOkReply, GuardMismatchReply},
     users |-> {"u1"},
     evals |-> {Obj(EvalP("good", 80, TRUE, "b", FALSE, <<>>)),
                Obj(EvalP("poor", 30, FALSE, "a", FALSE, <<>>))},
     renders |-> {<<Txt("v1")>>},
     finals |-> {Obj(FeedbackP("Middle", 70))},
     failing |-> {"analyze", "generate", "render_message"},
     turns |-> MaxTurnsTransport]

InitTransport == InitOn(TransportInputs) /\ Alone
NextTransport ==
    \/ StepOn(TransportInputs) /\ UNCHANGED pair_vars
    \/ StepFailsOn(TransportInputs) /\ UNCHANGED pair_vars
    \/ FinishOn(TransportInputs) /\ UNCHANGED pair_vars
SpecTransport == InitTransport /\ [][NextTransport]_vars

(***************************************************************************)
(* Properties.                                                             *)
(***************************************************************************)
LastTurn == turns[Len(turns)]

ScoredGood(i) == i >= 1 /\ turns[i].score_0_100 >= 75
ScoredPoor(i) ==
    /\ i >= 1
    /\ \/ turns[i].score_0_100 <= 45
       \/ turns[i].internal_thoughts.quality \in {"poor", "unknown"}

\* C1: the difficulty after a step differs from the difficulty before it only
\* if this turn and the turn immediately before it both scored >= 75, or both
\* were poor (score <= 45 or quality poor/unknown), or this turn scored <= 45.
C1_ChangeOnlyByConsecutiveStreak ==
    (last_op = "step" /\ difficulty # pre.difficulty) =>
        \/ ScoredGood(Len(turns)) /\ ScoredGood(Len(turns) - 1)
        \/ ScoredPoor(Len(turns)) /\ ScoredPoor(Len(turns) - 1)
        \/ LastTurn.score_0_100 <= 45

OneUp(d) == IF d = "easy" THEN "medium" ELSE "hard"
OneDown(d) == IF d = "hard" THEN "medium" ELSE "easy"

\* C2: the transition rule, applied to the streaks as the streak update left
\* them: streak_good >= 2 moves the difficulty one step up (hard stays hard)
\* and resets streak_good; otherwise streak_poor >= 2 moves it one step down
\* (easy stays easy) and resets streak_poor; otherwise nothing changes.  The
\* difficulty is always easy, medium or hard, and from plan [a, b, c] two turns
\* scoring 80 give streak_good = 1 on easy, then medium with streak_good = 0.
C2_TransitionRule ==
    /\ difficulty \in {"easy", "medium", "hard"}
    /\ last_op = "step" =>
        LET b == transition.before
            a == transition.after
        IN  /\ b.streak_good >= 2 =>
                a.difficulty = OneUp(b.difficulty) /\ a.streak_good = 0
            /\ (b.streak_good < 2 /\ b.streak_poor >= 2) =>
                a.difficulty = OneDown(b.difficulty) /\ a.streak_poor = 0
            /\ (b.streak_good < 2 /\ b.streak_poor < 2) => a = b
            /\ streak_good = a.streak_good /\ streak_poor = a.streak_poor
    /\ (last_op = "step" /\ topic_plan = <<"a", "b", "c">> /\ turn_id = 1
            /\ turns[1].score_0_100 = 80) =>
        streak_good = 1 /\ difficulty = "easy"
    /\ (last_op = "step" /\ topic_plan = <<"a", "b", "c">> /\ turn_id = 2
            /\ turns[1].score_0_100 = 80 /\ turns[2].score_0_100 = 80) =>
        streak_good = 0 /\ difficulty = "medium"

\* C2 witness: a demotion from hard to medium after two poor turns that moved on
C2_Witness ==
    /\ last_op = "step"
    /\ transition.before = [difficulty |-> "hard", streak_good |-> 0, streak_poor |-> 2]
    /\ difficulty = "medium"

\* C3: a step whose evaluation scored <= 45 commits the difficulty easy (for
\* the generation calls and in the turn record) and asks generation for a hint.
C3_PoorScoreForcesEasyAndHint ==
    (last_op = "step" /\ observed.plan.score_0_100 <= 45) =>
        /\ difficulty = "easy"
        /\ LastTurn.difficulty = "easy"
        /\ \A i \in 1..Len(gen_calls) :
            gen_calls[i].difficulty = "easy" /\ gen_calls[i].need_hint

\* C4: the committed topic (current_topic and the topic of every turn record)
\* is a member of the topic plan; a step whose evaluation says not to move on
\* commits the topic of the previous turn (the seed topic on the first step).
C4_CommittedTopicInPlan ==
    /\ \E k \in 1..Len(topic_plan) : topic_plan[k] = current_topic
    /\ \A i \in 1..Len(turns) :
        /\ \E k \in 1..Len(topic_plan) : topic_plan[k] = turns[i].topic
        /\ ~turns[i].internal_thoughts.should_move_on =>
            turns[i].topic = IF i = 1 THEN topic_plan[1] ELSE turns[i - 1].topic
    /\ (last_op = "step" /\ ~observed.plan.should_move_on) =>
        current_topic = pre.current_topic

\* C4 witness: a first turn that jumped to the recommended topic c, then a turn
\* that stayed although the model recommended b
C4_Witness ==
    /\ last_op = "step" /\ turn_id = 2
    /\ topic_plan = <<"a", "b", "c">>
    /\ turns[1].topic = "c"
    /\ ~observed.plan.should_move_on /\ observed.plan.next_topic = "b"
    /\ current_topic = "c"

\* C5: when the model's evaluation, once validated, has should_move_on = true
\* and a next_topic outside the plan, the step commits the plan entry at
\* min(topic_index + 1, last index) and moves the cursor there.
C5_OutOfPlanTopicAdvances ==
    (/\ last_op = "step" /\ observed.parsed
     /\ observed.recommended.should_move_on
     /\ \A k \in 1..Len(topic_plan) : topic_plan[k] # observed.recommended.next_topic) =>
        LET k == Min(pre.topic_index + 1, Len(topic_plan) - 1) IN
        /\ topic_index = k
        /\ current_topic = topic_plan[k + 1]

\* C7: finish() lets no exception through and returns a report that satisfies
\* the FinalReport schema, whatever the reply to the finalization call and
\* whatever the number of completed turns.
C7_FinishNeverRaises ==
    last_op = "finish" =>
        /\ raised = "none"
        /\ IsFinalFeedback(final_feedback)

\* C6: when no reply of the backend can be parsed, every evaluation is the
\* fallback evaluation (unknown, 45, stay, hint, current topic and difficulty),
\* every draft is the fallback draft (hint empty iff need_hint is false), the
\* plan is the 3-topic default, and construction and steps raise nothing.
C6_UnparsableGivesFallbacks ==
    /\ topic_plan = <<"general_basics", "problem_solving", "tools_workflow">>
    /\ last_op \in {"init", "step"} => raised = "none"
    /\ \A i \in 1..Len(gen_calls) :
        /\ gen_calls[i].result.question_text = FallbackQuestionText
        /\ gen_calls[i].result.ideal_answer_short = FallbackIdeal
        /\ gen_calls[i].result.hint = (IF gen_calls[i].need_hint THEN FallbackHint ELSE "")
        /\ gen_calls[i].result.hint = "" <=> ~gen_calls[i].need_hint
    /\ \A i \in 1..Len(guard_checks) :
        /\ guard_checks[i].out.answer_quality = "unknown"
        /\ guard_checks[i].out.score_0_100 = 45
        /\ ~guard_checks[i].out.should_move_on
        /\ guard_checks[i].out.need_hint
        /\ guard_checks[i].out.next_topic = guard_checks[i].topic
    /\ last_op = "step" =>
        /\ observed.plan.answer_quality = "unknown"
        /\ observed.plan.score_0_100 = 45
        /\ ~observed.plan.should_move_on
        /\ observed.plan.need_hint
        /\ observed.plan.next_topic = pre.current_topic
        /\ observed.plan.next_difficulty = pre.difficulty
    /\ \A i \in 1..Len(turns) :
        turns[i].score_0_100 = 45 /\ turns[i].ideal_answer_short = FallbackIdeal

\* C6 witness: a second step completed on fallbacks, with a hint, after a
\* verification reply whose head made the guard regenerate
C6_Witness ==
    /\ last_op = "step" /\ turn_id = 2 /\ raised = "none"
    /\ Len(gen_calls) = 2 /\ gen_calls[2].result.hint = FallbackHint
    /\ ~observed.parsed

\* C8: a generation phase with max_regen_attempts = N invokes generation at
\* most N + 1 times (once when N = 0) whatever the guard answers; the phase
\* ends, and the step returns its visible message.
C8_BoundedGeneration ==
    /\ Len(gen_calls) >= 1
    /\ Len(gen_calls) <= max_regen_attempts + 1
    /\ max_regen_attempts = 0 => Len(gen_calls) = 1
    /\ last_op = "step" =>
        /\ raised = "none"
        /\ history[Len(history)] = AssistantEntry(LastTurn.agent_visible_message)
        /\ Len(history) = 2 + 2 * turn_id

\* C8 witness: every permitted check reported a mismatch, and the step returned
C8_Witness ==
    /\ last_op = "step" /\ max_regen_attempts = 1
    /\ Len(gen_calls) = 2 /\ Len(guard_checks) = 1 /\ ~guard_checks[1].ok
    /\ history[Len(history)].role = "assistant"

\* C9: every avoid list passed to a generation call, retries included, holds
\* at most 8 entries.
C9_AvoidAtMostEight ==
    \A i \in 1..Len(gen_calls) : Len(gen_calls[i].avoid_questions) <= 8

\* the distinct questions drafted before the i-th generation call of the phase
DraftedBeforeCall(i) == Drafted(drafted_before, SubSeq(gen_calls, 1, i - 1))

\* C10 as stated: the avoid list of every generation call is, in order, the
\* most recent (up to 8) distinct questions drafted so far in the session,
\* drafts rejected by the guard included, with no duplicate entry.
C10_AvoidIsRecentDistinctDrafts ==
    \A i \in 1..Len(gen_calls) :
        LET avoid == gen_calls[i].avoid_questions
            drafted == DraftedBeforeCall(i)
        IN  /\ \A j, k \in 1..Len(avoid) : j # k => avoid[j] # avoid[k]
            /\ avoid = SubSeq(drafted, Len(drafted) - Min(8, Len(drafted)) + 1, Len(drafted))

\* C10 as amended: the first generation call of a phase gets, in order, the
\* last (up to 8) entries of the asked questions, which are the drafts accepted
\* in earlier phases; a retry gets that list followed by the draft just
\* rejected; the accepted draft is the one appended to the asked questions.
C10_AvoidIsRecentAsked ==
    LET earlier == SubSeq(asked_questions_text, 1, Len(asked_questions_text) - 1)
        recent == SubSeq(earlier, Len(earlier) - Min(8, Len(earlier)) + 1, Len(earlier))
    IN  /\ gen_calls[1].avoid_questions = recent
        /\ \A i \in 2..Len(gen_calls) :
            gen_calls[i].avoid_questions =
                Append(recent, gen_calls[i - 1].result.question_text)
        /\ asked_questions_text[Len(asked_questions_text)] =
            gen_calls[Len(gen_calls)].result.question_text

\* C10 witness: a retry in the tenth phase: the window dropped the oldest
\* asked question, repeats a question, and misses a draft rejected earlier
C10_Witness ==
    /\ Len(asked_questions_text) = 10 /\ Len(gen_calls) = 2
    /\ Len(gen_calls[1].avoid_questions) = 8
    /\ gen_calls[1].avoid_questions[1] = gen_calls[1].avoid_questions[2]
    /\ \E j \in 1..Len(drafted_before) :
        \A k \in 1..8 : gen_calls[1].avoid_questions[k] # drafted_before[j]

\* C11 as stated: the counters as the streak update leaves them, before the
\* transition check: score >= 75 adds 1 to streak_good and zeroes streak_poor;
\* score <= 45 or quality poor/unknown, whatever the score, adds 1 to
\* streak_poor and zeroes streak_good; otherwise neither changes.
C11_StreakUpdateAsStated ==
    last_op = "step" =>
        LET e == observed.plan
            b == transition.before
            weak == e.score_0_100 <= 45 \/ e.answer_quality \in {"poor", "unknown"}
        IN  /\ e.score_0_100 >= 75 =>
                b.streak_good = pre.streak_good + 1 /\ b.streak_poor = 0
            /\ weak => b.streak_poor = pre.streak_poor + 1 /\ b.streak_good = 0
            /\ (e.score_0_100 < 75 /\ ~weak) =>
                b.streak_good = pre.streak_good /\ b.streak_poor = pre.streak_poor

\* C11 as amended: score >= 75 adds 1 to streak_good and zeroes streak_poor,
\* whatever the quality; otherwise score <= 45 or quality poor/unknown adds 1
\* to streak_poor and zeroes streak_good; otherwise neither changes.  The
\* transition check of the same step sees the updated counters: a second good
\* score promotes at once, a second weak evaluation resets streak_poor at once.
C11_StreakUpdateScoreFirst ==
    last_op = "step" =>
        LET e == observed.plan
            b == transition.before
            weak == e.score_0_100 <= 45 \/ e.answer_quality \in {"poor", "unknown"}
        IN  /\ e.score_0_100 >= 75 =>
                b.streak_good = pre.streak_good + 1 /\ b.streak_poor = 0
            /\ (e.score_0_100 < 75 /\ weak) =>
                b.streak_poor = pre.streak_poor + 1 /\ b.streak_good = 0
            /\ (e.score_0_100 < 75 /\ ~weak) =>
                b.streak_good = pre.streak_good /\ b.streak_poor = pre.streak_poor
            /\ b.difficulty = pre.difficulty
            /\ (e.score_0_100 >= 75 /\ pre.streak_good = 1) =>
                /\ streak_good = 0
                /\ transition.after.difficulty = OneUp(pre.difficulty)
            /\ (e.score_0_100 < 75 /\ weak /\ pre.streak_poor = 1) =>
                /\ streak_poor = 0
                /\ transition.after.difficulty = OneDown(pre.difficulty)

\* C11 witness: a second score of 75, given with quality poor, promoted
C11_Witness ==
    /\ last_op = "step" /\ turn_id = 2
    /\ observed.plan.answer_quality = "poor" /\ observed.plan.score_0_100 = 75
    /\ pre.streak_good = 1 /\ transition.before.streak_good = 2
    /\ streak_good = 0 /\ difficulty = "medium"

\* C12 as stated: in every state between operations exactly one of
\* streak_good and streak_poor is non-zero.
C12_ExactlyOneStreakNonZero ==
    (streak_good # 0 /\ streak_poor = 0) \/ (streak_good = 0 /\ streak_poor # 0)

\* C12 as amended: at most one of streak_good and streak_poor is non-zero,
\* between operations and between the streak update and the transition check;
\* both are 0 after construction and whenever the transition check has just
\* reset the counter that reached 2.
C12_AtMostOneStreakNonZero ==
    /\ streak_good >= 0 /\ streak_poor >= 0
    /\ streak_good = 0 \/ streak_poor = 0
    /\ turn_id = 0 => streak_good = 0 /\ streak_poor = 0
    /\ last_op = "step" =>
        /\ transition.before.streak_good = 0 \/ transition.before.streak_poor = 0
        /\ (transition.before.streak_good >= 2 \/ transition.before.streak_poor >= 2) =>
            streak_good = 0 /\ streak_poor = 0

\* C12 witness: a weak evaluation right after a good one took the place of
\* the good streak
C12_Witness ==
    /\ last_op = "step"
    /\ pre.streak_good = 1 /\ pre.streak_poor = 0
    /\ streak_good = 0 /\ streak_poor = 1

\* the positions in the last operation at which statement op was executed
At(op) == {i \in 1..Len(events) : events[i].op = op}

AllBefore(A, B) == \A i \in A, j \in B : i < j

\* C13: within a step, exactly one evaluation of the user message, then the
\* streak update, then the difficulty update, then the topic commit, then the
\* generation calls with the guard checks between them, then exactly one
\* render, then exactly one log append, then the return; history holds no
\* assistant entry of the turn and the log no record of it while generation
\* runs, and topic and difficulty stay as they are from the first generation
\* call on.
C13_StepOrder ==
    last_op = "step" =>
        LET generation == At("generate") \cup At("topic_guard") IN
        /\ \A op \in {"analyze", "update_streaks", "update_difficulty", "commit_topic",
                       "render_message", "add_turn", "return"} :
                Cardinality(At(op)) = 1
        /\ \A i \in At("analyze") : events[i].arg = LastTurn.user_message
        /\ AllBefore(At("analyze"), At("update_streaks"))
        /\ AllBefore(At("update_streaks"), At("update_difficulty"))
        /\ AllBefore(At("update_difficulty"), At("commit_topic"))
        /\ AllBefore(At("commit_topic"), generation)
        /\ AllBefore(generation, At("render_message"))
        /\ AllBefore(At("render_message"), At("add_turn"))
        /\ AllBefore(At("add_turn"), At("return"))
        /\ events[Len(events)].op = "return"
        /\ Cardinality(At("generate")) = Len(gen_calls)
        /\ Cardinality(At("topic_guard")) = Len(guard_checks)
        /\ Cardinality(At("generate")) >= 1
        /\ \A i \in At("topic_guard") : events[i - 1].op = "generate"
        /\ \A i \in generation :
            /\ events[i].history_len = Len(history) - 1
            /\ events[i].turns_len = Len(turns) - 1
        /\ \A i \in 1..Len(events) :
            (\E j \in At("generate") : j <= i) =>
                events[i].topic = current_topic /\ events[i].difficulty = difficulty
        /\ \A i \in 1..Len(gen_calls) :
            gen_calls[i].topic = current_topic /\ gen_calls[i].difficulty = difficulty

\* C13 witness: a step that moved to another topic and whose first draft the
\* guard rejected: generate, guard, generate, then render and log
C13_Witness ==
    /\ last_op = "step"
    /\ pre.current_topic # current_topic
    /\ Cardinality(At("generate")) = 2 /\ Cardinality(At("topic_guard")) = 1
    /\ events[Len(events) - 2].op = "push_assistant"
    /\ events[Len(events) - 1].op = "add_turn"

\* C14 as stated: after construction and before any step the topic is the
\* first plan entry, topic_index 0, difficulty easy, both streaks 0, the log
\* empty, and exactly one question was generated with intent warmup, without
\* hint, for the first topic at easy, and it is the last assistant entry of
\* history.
C14_OneWarmupQuestion ==
    turn_id = 0 =>
        /\ current_topic = topic_plan[1] /\ topic_index = 0 /\ difficulty = "easy"
        /\ streak_good = 0 /\ streak_poor = 0 /\ turns = <<>>
        /\ \E i \in 1..Len(gen_calls) :
            /\ \A j \in 1..Len(gen_calls) : gen_calls[j].intent = <<"warmup">> <=> j = i
            /\ ~gen_calls[i].need_hint
            /\ gen_calls[i].topic = topic_plan[1] /\ gen_calls[i].difficulty = "easy"
            /\ history[Len(history)] = AssistantEntry(gen_calls[i].result.question_text)

\* C14 as amended: after construction and before any step the topic is the
\* first plan entry, topic_index 0, difficulty easy, both streaks 0, the log
\* empty; one generation phase has run, of 1 to max_regen_attempts + 1 calls,
\* all without hint, for the first topic at easy, the first with intent warmup
\* and each retry with intent warmup_REGEN_TOPIC_MISMATCH; the draft of the
\* last call is the only asked question and, after the intro, the last
\* assistant entry of history; nothing was asked of the user before it.
C14_WarmupPhase ==
    turn_id = 0 =>
        LET last == gen_calls[Len(gen_calls)].result IN
        /\ current_topic = topic_plan[1] /\ topic_index = 0 /\ difficulty = "easy"
        /\ streak_good = 0 /\ streak_poor = 0 /\ turns = <<>>
        /\ Len(gen_calls) >= 1 /\ Len(gen_calls) <= max_regen_attempts + 1
        /\ Len(guard_checks) \in {Len(gen_calls) - 1, Len(gen_calls)}
        /\ \A i \in 1..Len(gen_calls) :
            /\ gen_calls[i].intent =
                (IF i = 1 THEN <<"warmup">> ELSE <<"warmup", "_REGEN_TOPIC_MISMATCH">>)
            /\ ~gen_calls[i].need_hint /\ gen_calls[i].result.hint = ""
            /\ gen_calls[i].topic = topic_plan[1] /\ gen_calls[i].difficulty = "easy"
        /\ history = <<AssistantEntry(Intro), AssistantEntry(last.question_text)>>
        /\ asked_questions_text = <<last.question_text>>
        /\ asked_topics = <<topic_plan[1]>>
        /\ At("push_user") = {} /\ At("analyze") = {}
        /\ events[Len(events)].op = "push_assistant"

\* C14 witness: the guard rejected the warm-up draft q1 and the retry's q2 is
\* what the session opens with, on the plan extracted from a wrapped reply
C14_Witness ==
    /\ last_op = "init" /\ topic_plan = <<"c", "a">>
    /\ Len(gen_calls) = 2 /\ gen_calls[1].result.question_text = "q1"
    /\ history[2] = AssistantEntry("q2")

\* C15: the topic plan is never empty; it is the planner's list, in the
\* planner's order, when the reply holds a JSON object whose topics are a
\* non-empty list of strings, and otherwise (no JSON, no object, mistyped
\* topics, no topics, empty list) exactly general_basics, problem_solving,
\* tools_workflow.
C15_PlanOrDefault ==
    /\ Len(topic_plan) >= 1
    /\ turn_id = 0 =>
        LET raw == observed.planner_reply
            Replies(t) == {Obj(PlanP(t)), Wrapped(PlanP(t))}
        IN  /\ \A t \in PlannedLists : raw \in Replies(t) => topic_plan = t
            /\ (\A t \in PlannedLists : raw \notin Replies(t)) =>
                topic_plan = <<"general_basics", "problem_solving", "tools_workflow">>
            /\ observed.planner_topics = topic_plan

\* C15 witness: the reply was an object whose topics are one string
C15_Witness ==
    /\ turn_id = 0 /\ last_op = "init"
    /\ observed.planner_reply = <<LB, Body(PlanMistyped), RB>>
    /\ topic_plan = DefaultPlan

\* the spellings of a mismatch marker among the words of the replies
MismatchWords == {"mismatch", "Mismatch", "MISMATCH"}

\* C16: a verification call that raised, or whose output names no mismatch,
\* makes the guard answer OK: that check triggers no regeneration, the phase
\* ends with the checked draft accepted and asked, and neither the
\* constructor nor step lets an error through.
C16_GuardFailOpen ==
    /\ last_op \in {"init", "step"} => raised = "none"
    /\ \A k \in 1..Len(guard_checks) :
        LET check == guard_checks[k]
            failed == "raised" \in DOMAIN check.out
            signal == /\ ~failed
                      /\ \E i \in 1..Len(check.out.notes) :
                            check.out.notes[i] \in MismatchWords
        IN  /\ (failed \/ ~signal) => check.ok
            /\ check.ok =>
                /\ k = Len(guard_checks) /\ Len(gen_calls) = k
                /\ gen_calls[k].result.question_text = check.question_text
                /\ asked_questions_text[Len(asked_questions_text)] = check.question_text
            /\ ~check.ok => Len(gen_calls) > k

\* C16 witness: the verification call of a step failed in transport and the
\* step went on with its first draft
C16_Witness ==
    /\ last_op = "step" /\ raised = "none"
    /\ Len(guard_checks) = 1 /\ "raised" \in DOMAIN guard_checks[1].out
    /\ guard_checks[1].ok /\ Len(gen_calls) = 1
    /\ history[Len(history)].role = "assistant"

\* history is the intro, the warm-up question, then one user entry and one
\* assistant entry per turn record, in order, with the record's messages
HistoryMirrorsLog ==
    /\ Len(history) = 2 + 2 * turn_id
    /\ Len(turns) = turn_id
    /\ history[1].role = "assistant" /\ history[2].role = "assistant"
    /\ \A i \in 1..Len(turns) :
        /\ turns[i].turn_id = i
        /\ history[2 * i + 1] = UserEntry(turns[i].user_message)
        /\ history[2 * i + 2] = AssistantEntry(turns[i].agent_visible_message)

\* an operation leaves every existing entry of history and of the log as it is
AppendsOnly ==
    /\ Len(history') >= Len(history) /\ SubSeq(history', 1, Len(history)) = history
    /\ Len(turns') >= Len(turns) /\ SubSeq(turns', 1, Len(turns)) = turns

C19_RecommendedPlanTopicAdopted ==
    (/\ last_op = "step" /\ observed.parsed
     /\ observed.recommended.should_move_on
     /\ \E k \in 1..Len(topic_plan) : topic_plan[k] = observed.recommended.next_topic) =>
        LET next_topic == observed.recommended.next_topic IN
        /\ current_topic = next_topic
        /\ LastTurn.topic = next_topic
        /\ \A i \in 1..Len(gen_calls) : gen_calls[i].topic = next_topic
        /\ topic_plan[topic_index + 1] = next_topic
        /\ \A j \in 1..topic_index : topic_plan[j] # next_topic

\* C19 witness: from the last entry of [a, b, c] back to the first
C19_Witness ==
    /\ last_op = "step" /\ topic_plan = <<"a", "b", "c">>
    /\ pre.topic_index = 2 /\ pre.current_topic = "c"
    /\ observed.recommended.should_move_on /\ observed.recommended.next_topic = "a"
    /\ topic_index = 0 /\ current_topic = "a"

\* an evaluation that says to move on to a topic outside the plan, as it would
\* reach step from an observer that does not rewrite it
MoveOnOutsidePlan ==
    [ObserverOutput([has |-> {}]) EXCEPT !.should_move_on = TRUE, !.next_topic = "zzz"]

\* the cursor is a valid offset, the plan entry under it is the committed
\* topic, and from the last entry the advance fallback stays on it
CursorOnCommittedTopic ==
    /\ topic_index >= 0 /\ topic_index < Len(topic_plan)
    /\ topic_plan[topic_index + 1] = current_topic
    /\ topic_index = Len(topic_plan) - 1 =>
        /\ AdvanceTopic(topic_index, topic_plan).topic_index = topic_index
        /\ LET dec == DecideTopic(MoveOnOutsidePlan, current_topic, difficulty,
                                  topic_index, topic_plan)
           IN  dec.topic_index = topic_index /\ dec.planned_topic = current_topic

\* C20: in every reachable state 0 <= topic_index < len(topic_plan) and
\* topic_plan[topic_index] is the committed topic, also for a plan with a
\* repeated topic; no operation modifies the plan; the advance fallback at the
\* last plan entry leaves the cursor there.
C20_CursorValidPlanFixed == []CursorOnCommittedTopic /\ [][topic_plan' = topic_plan]_vars

\* C20 witness: on the plan [a, b, a] a step moved from b to the repeated
\* topic a
C20_Witness ==
    /\ last_op = "step" /\ topic_plan = <<"a", "b", "a">>
    /\ pre.topic_index = 1 /\ pre.current_topic = "b"
    /\ current_topic = "a" /\ topic_index = 0

\* an operation called on one session leaves the state of every other
\* session as it was
OthersUntouched ==
    \A k \in 1..Len(engines) : actor' # k => Session(k)' = Session(k)

\* C18: with the operations of two sessions interleaved in any order, the
\* state of a session (plan, topic, topic_index, difficulty, streaks, history,
\* asked questions and topics, log) is what it is when the session runs
\* alone on the same replies, and no operation on one session changes any
\* state of the other.
C18_SessionsIndependent == [](Session(1) = Solo) /\ [][OthersUntouched]_vars

\* C18 witness: both sessions completed two steps, on different plans, and
\* the last operation was a step of the second
C18_Witness ==
    /\ Len(engines) = 2 /\ actor = 2
    /\ Session(1).turn_id = 2 /\ Session(2).turn_id = 2
    /\ Session(1).topic_plan # Session(2).topic_plan
    /\ Session(1).history # Session(2).history

\* the texts of a sequence of questions, as a set
Texts(qs) == {qs[k] : k \in 1..Len(qs)}

\* C21: in a generation phase every retry receives an avoid list that holds
\* the recent asked questions of the initial call and every draft the guard
\* rejected so far in the phase, its intent is the initial intent tagged as
\* a mismatch retry, and its topic, difficulty and need-hint arguments are
\* those of the initial call.
C21_RetryAvoidsAllRejected ==
    last_op \in {"init", "step"} =>
        \A i \in 2..Len(gen_calls) :
            /\ Texts(gen_calls[1].avoid_questions) \subseteq Texts(gen_calls[i].avoid_questions)
            /\ \A j \in 1..(i - 1) :
                gen_calls[j].result.question_text \in Texts(gen_calls[i].avoid_questions)
            /\ gen_calls[i].intent = gen_calls[1].intent \o <<"_REGEN_TOPIC_MISMATCH">>
            /\ gen_calls[i].topic = gen_calls[1].topic
            /\ gen_calls[i].difficulty = gen_calls[1].difficulty
            /\ gen_calls[i].need_hint = gen_calls[1].need_hint

\* the draft returned by the last qgen.generate call of the phase
LastDraft == gen_calls[Len(gen_calls)].result

\* C22: the draft a phase accepts is the last one generated in it: the
\* initial draft when the guard was not run or passed it, otherwise a
\* regenerated one, even if the guard rejected every draft it saw.  That
\* draft's question is the one entry the phase appends to the asked
\* questions and the question passed to render, its hint is the hint passed
\* to render and its ideal answer is the one in the turn record; the phase
\* appends and renders nothing else.
C22_LastDraftAccepted ==
    last_op \in {"init", "step"} =>
        /\ Len(gen_calls) >= 1
        /\ (guard_checks = <<>> \/ guard_checks[1].ok) <=> Len(gen_calls) = 1
        /\ Len(asked_questions_text) = turn_id + 1
        /\ asked_questions_text[Len(asked_questions_text)] = LastDraft.question_text
        /\ Cardinality(At("append_asked")) = 1
        /\ \A i \in At("append_asked") : events[i].arg = LastDraft.question_text
        /\ last_op = "init" =>
            history[Len(history)] = AssistantEntry(LastDraft.question_text)
        /\ last_op = "step" =>
            /\ observed.rendered.question_text = LastDraft.question_text
            /\ observed.rendered.hint = LastDraft.hint
            /\ Cardinality(At("render_message")) = 1
            /\ \A i \in At("render_message") : events[i].arg = LastDraft.question_text
            /\ Len(turns) = turn_id
            /\ LastTurn.ideal_answer_short = LastDraft.ideal_answer_short

\* C22 witness: a step whose first draft q1 was rejected and whose retry
\* produced q2, asked with the hint h2 and logged with the ideal answer i2
C22_Witness ==
    /\ last_op = "step" /\ Len(gen_calls) = 2
    /\ gen_calls[1].result.question_text = "q1" /\ ~guard_checks[1].ok
    /\ LastDraft = [question_text |-> "q2", hint |-> "h2", ideal_answer_short |-> "i2"]
    /\ asked_questions_text[Len(asked_questions_text)] = "q2"
    /\ LastTurn.ideal_answer_short = "i2"

\* C23: within one step the topic passed to every generation call, the topic
\* passed to every guard check, the topic appended to asked_topics, the topic
\* of the turn record, last_topic and current_topic after the step are one
\* value, and the difficulty passed to every generation call is the
\* difficulty of the turn record.
C23_OneTopicPerTurn ==
    last_op = "step" =>
        /\ \A i \in 1..Len(gen_calls) :
            /\ gen_calls[i].topic = current_topic
            /\ gen_calls[i].difficulty = LastTurn.difficulty
        /\ \A i \in 1..Len(guard_checks) : guard_checks[i].topic = current_topic
        /\ asked_topics[Len(asked_topics)] = current_topic
        /\ Len(asked_topics) = turn_id + 1
        /\ LastTurn.topic = current_topic
        /\ LastTurn.internal_thoughts.planned_topic = current_topic
        /\ last_topic = current_topic

\* C23 witness: a step that moved from a to b, with three generation calls
\* and two guard checks, all for b
C23_Witness ==
    /\ last_op = "step" /\ pre.current_topic = "a" /\ current_topic = "b"
    /\ Len(gen_calls) = 3 /\ Len(guard_checks) = 2
    /\ LastTurn.topic = "b" /\ asked_topics = <<"a", "b">>

\* C24: when a collaborator call of step (evaluate, generate or render)
\* raises a transport error, the error reaches the caller and the session is
\* as it was before the step: turn counter, history, streaks, difficulty,
\* current topic, topic_index, asked questions and log are unchanged, so the
\* log still has turn_id records and history 2 + 2 * turn_id entries.
C24_FailedStepChangesNothing ==
    (last_op = "step" /\ raised # "none") =>
        /\ raised = "RequestException"
        /\ Snapshot = pre
        /\ Len(turns) = turn_id
        /\ Len(history) = 2 + 2 * turn_id

\* finish() leaves the turn records, history, turn counter, topics, cursor,
\* difficulty, streaks and asked questions as they were
FinishKeepsSession == last_op' = "finish" => Snapshot' = Snapshot

\* C25: the logged final report is null in every state before the first
\* finish() and non-null after it; finish() passes the complete sequence of
\* turn records and the complete history to finalization, and it changes
\* none of turn records, history, turn counter, topic, topic_index,
\* difficulty, streaks and asked questions.
C25_FinishIsTerminalSynthesis ==
    /\ [](/\ phase = "IN_PROGRESS" => final_feedback = None
          /\ last_op = "finish" =>
                /\ finalized.stored /\ DOMAIN final_feedback = FeedbackFields
                /\ finalized.turns = turns /\ finalized.transcript = history)
    /\ [][FinishKeepsSession]_vars

\* C26: after construction and after every completed step both streak
\* counters are 0 or 1 and at most one of them is 1; a counter that reaches 2
\* during a step is 0 when the step ends, and no step both promotes and
\* demotes.
C26_StreaksBelowTwo ==
    /\ streak_good \in {0, 1} /\ streak_poor \in {0, 1}
    /\ ~(streak_good = 1 /\ streak_poor = 1)
    /\ last_op = "step" =>
        LET promoted == transition.before.streak_good >= 2
            demoted == transition.before.streak_poor >= 2
        IN  /\ transition.before.streak_good \in 0..2
            /\ transition.before.streak_poor \in 0..2
            /\ promoted => streak_good = 0
            /\ demoted => streak_poor = 0
            /\ ~(promoted /\ demoted)
            /\ ~promoted => transition.after.difficulty \in
                    {transition.before.difficulty, OneDown(transition.before.difficulty)}
            /\ ~demoted => transition.after.difficulty \in
                    {transition.before.difficulty, OneUp(transition.before.difficulty)}

\* C26 witness: at hard, a second poor answer in a row brought the poor
\* counter to 2 inside the step; the step ended at medium with both at 0
C26_Witness ==
    /\ last_op = "step" /\ pre.difficulty = "hard" /\ pre.streak_poor = 1
    /\ transition.before.streak_poor = 2 /\ transition.after.difficulty = "medium"
    /\ streak_poor = 0 /\ streak_good = 0

\* C27: a generation phase runs the guard at most max_regen_attempts times,
\* and not at all when max_regen_attempts = 0; the k-th check is on the k-th
\* draft, the draft generated just before it, and the draft of the last
\* permitted regeneration (call max_regen_attempts + 1) is accepted without
\* a check.
C27_GuardChecksBounded ==
    last_op \in {"init", "step"} =>
        /\ Len(guard_checks) <= max_regen_attempts
        /\ max_regen_attempts = 0 => guard_checks = <<>> /\ At("topic_guard") = {}
        /\ Cardinality(At("topic_guard")) = Len(guard_checks)
        /\ \A k \in 1..Len(guard_checks) :
            guard_checks[k].question_text = gen_calls[k].result.question_text
        /\ \A i \in At("topic_guard") :
            /\ i > 1 /\ events[i - 1].op = "generate"
            /\ events[i].arg = events[i - 1].arg
        /\ Len(gen_calls) = max_regen_attempts + 1 =>
            /\ Len(guard_checks) = max_regen_attempts
            /\ \A i \in At("topic_guard") : \E j \in At("generate") : j > i
            /\ asked_questions_text[Len(asked_questions_text)] = LastDraft.question_text

\* C27 witness: with max_regen_attempts = 1 the guard rejected q1 in a step,
\* q2 was regenerated and asked, and the guard ran once
C27_Witness ==
    /\ last_op = "step" /\ max_regen_attempts = 1
    /\ Len(gen_calls) = 2 /\ Len(guard_checks) = 1
    /\ guard_checks[1].question_text = "q1" /\ ~guard_checks[1].ok
    /\ asked_questions_text[Len(asked_questions_text)] = "q2"

\* a guard check leaves the committed topic, the difficulty, history and the
\* log as the generation call before it left them
GuardLeavesEngine ==
    \A i \in At("topic_guard") :
        /\ events[i].topic = events[i - 1].topic
        /\ events[i].difficulty = events[i - 1].difficulty
        /\ events[i].history_len = events[i - 1].history_len
        /\ events[i].turns_len = events[i - 1].turns_len

\* C28: a guard check changes no session state.  Whatever the verification
\* evaluation holds, streaks, difficulty, current topic, topic_index,
\* history, asked questions, turn counter and log are after construction
\* what the constructor sets, and after a step what the evaluation of the
\* user's answer makes of the state before the step.
C28_GuardChangesNothing ==
    /\ last_op \in {"init", "step"} =>
        /\ GuardLeavesEngine
        /\ Len(history) = 2 + 2 * turn_id /\ Len(turns) = turn_id
        /\ Len(asked_questions_text) = turn_id + 1 /\ Len(asked_topics) = turn_id + 1
        /\ topic_plan[topic_index + 1] = current_topic
    /\ last_op = "init" =>
        /\ streak_good = 0 /\ streak_poor = 0 /\ difficulty = "easy"
        /\ topic_index = 0 /\ turn_id = 0
    /\ last_op = "step" =>
        LET e == observed.plan
            good == e.score_0_100 >= 75
            poor == ~good /\ (e.score_0_100 <= 45 \/ e.answer_quality \in {"poor", "unknown"})
            g == IF good THEN pre.streak_good + 1 ELSE IF poor THEN 0 ELSE pre.streak_good
            p == IF poor THEN pre.streak_poor + 1 ELSE IF good THEN 0 ELSE pre.streak_poor
            d == IF g >= 2 THEN OneUp(pre.difficulty)
                 ELSE IF p >= 2 THEN OneDown(pre.difficulty) ELSE pre.difficulty
        IN  /\ streak_good = (IF g >= 2 THEN 0 ELSE g)
            /\ streak_poor = (IF p >= 2 THEN 0 ELSE p)
            /\ difficulty = (IF ~e.should_move_on /\ e.score_0_100 <= 45 THEN "easy" ELSE d)
            /\ current_topic = (IF e.should_move_on THEN e.next_topic ELSE pre.current_topic)
            /\ LastTurn.score_0_100 = e.score_0_100
            /\ LastTurn.turn_id = turn_id

\* C28 witness: the user's answer scored 80 and moved the session on to b;
\* the verification evaluation of the draft said poor, 20; the step ended
\* with one good answer counted, no poor one, and 80 in the log
C28_Witness ==
    /\ last_op = "step" /\ Len(guard_checks) = 1 /\ ~guard_checks[1].ok
    /\ guard_checks[1].out.answer_quality = "poor" /\ guard_checks[1].out.score_0_100 = 20
    /\ observed.plan.score_0_100 = 80
    /\ streak_good = 1 /\ streak_poor = 0 /\ current_topic = "b"
    /\ LastTurn.score_0_100 = 80

====
